---- MODULE Spec2Model ----
(***************************************************************************)
(* Notion-CMS-Adaptor: the client of client.ts (createNotionDBClient), its *)
(* collection resolver (createUseDatabaseFunction) and its record          *)
(* transcoder (processRow, createMutateData), as a state machine.          *)
(*                                                                         *)
(* One caller issues one access-layer operation at a time.  An operation   *)
(* is a sequence of steps, one per piece of code between two awaits on the *)
(* store client; the store (the Notion API) is the environment: a store    *)
(* call may fail, and the container's children may change between steps.   *)
(*                                                                         *)
(* Strings the code takes apart (logical names, child titles) are          *)
(* sequences of one-character strings; type tags are tuples whose first    *)
(* element is "__" for the metadata tags ('__id' is <<"__", "id">>).      *)
(***************************************************************************)
EXTENDS Integers, Sequences, FiniteSets, TLC

None == "none"

\* JavaScript values whose typeof the code asks for
Str(s) == [t |-> "string", v |-> s]
Num(n) == [t |-> "number", v |-> n]
Bool(b) == [t |-> "boolean", v |-> b]
Null == [t |-> "null", v |-> "null"]
Undefined == [t |-> "undefined", v |-> "undefined"]

(***************************************************************************)
(* Bounds of the model.                                                    *)
(***************************************************************************)
\* the longest result list the store returns to one databases.query
MaxResults == 2
\* the longest list (of names, of ids, of text spans) a field codec is applied to
MaxItems == 2

(***************************************************************************)
(* Strings.                                                                *)
(***************************************************************************)
StartsWith(s, p) == Len(s) >= Len(p) /\ SubSeq(s, 1, Len(p)) = p

Slice(s, n) == SubSeq(s, n + 1, Len(s))

\* the least index at which sep occurs in s, 0 when it does not
IndexOf(s, sep) ==
    LET hits == {i \in 1..(Len(s) - Len(sep) + 1) : SubSeq(s, i, i + Len(sep) - 1) = sep}
    IN  IF hits = {} THEN 0 ELSE CHOOSE i \in hits : \A j \in hits : i <= j

\* s.split(sep)[0]
SplitFirst(s, sep) ==
    LET i == IndexOf(s, sep)
    IN  IF i = 0 THEN s ELSE SubSeq(s, 1, i - 1)

\* a plausible slip: the view suffix is not cut off
WholeName(name) == name

\* rawName = (name as string).split('__')[0]
RawName(name) == SplitFirst(name, <<"_", "_">>)

(***************************************************************************)
(* The schemas handed to createNotionDBClient (dbSchemas).  A schema is    *)
(* the list of its entries in Object.entries order.                        *)
(***************************************************************************)
IdType == <<"__", "id">>
NumberType == <<"number">>
FormulaType == <<"formula">>
RichTextType == <<"rich_text">>
IconType == <<"__", "icon">>

\* __id(): metadata('id'), no composer
IdDef == [key |-> "_id", type |-> IdType, handler |-> "raw", composer |-> None]
\* number(): makeMutableDefaultOptions('number')
NumberDef == [key |-> "n", type |-> NumberType, handler |-> "raw", composer |-> "raw"]
\* formula(): makeDefaultOptions('formula'), no composer
FormulaDef == [key |-> "f", type |-> FormulaType, handler |-> "raw", composer |-> None]

\* mutableMetadata('icon'): makeMutableDefaultOptions('__icon')
IconDef == [key |-> "i", type |-> IconType, handler |-> "raw", composer |-> "raw"]

\* metadata('created_time'), no composer
CreatedTimeDef ==
    [key |-> "c", type |-> <<"__", "created_time">>, handler |-> "raw", composer |-> None]

\* select().stringEnum('a', 'b')
SelectDef ==
    [key |-> "s", type |-> <<"select">>, handler |-> "stringEnum", composer |-> "stringEnum",
     values |-> <<Str("a"), Str("b")>>]

NameA == <<"a">>
NameAView == <<"a", "_", "_", "v">>
NameATimes == <<"a", "_", "_", "t">>
NameB == <<"b">>
NameBx == <<"b", "_", "x">>

DBNames == {NameA, NameAView, NameATimes, NameB, NameBx}

dbSchemas ==
    [name \in DBNames |->
        IF name = NameA THEN <<IdDef, NumberDef, FormulaDef>>
        ELSE IF name = NameAView THEN <<NumberDef>>
        ELSE IF name = NameATimes THEN <<CreatedTimeDef, FormulaDef>>
        ELSE IF name = NameB THEN <<IdDef, NumberDef, IconDef, SelectDef>>
        ELSE <<NumberDef, IdDef>>]

(***************************************************************************)
(* The store: pages, and the children of the container page.               *)
(***************************************************************************)
Wire(type, val) == [type |-> type, val |-> Num(val)]

NoProps == [k \in {} |-> Wire(NumberType, 0)]

Page(id, full, ptype, pid, props) ==
    [id |-> id, full |-> full, parentType |-> ptype, parentId |-> pid, icon |-> None,
     \* p1 and p5 were created in the same minute
     created_time |-> IF id \in {"p1", "p5"} THEN "t1" ELSE "t2",
     properties |-> props]

Pages ==
    { Page("p1", TRUE, "database_id", "d1",
           [k \in {"n", "f"} |-> IF k = "n" THEN Wire(NumberType, 5) ELSE Wire(FormulaType, 7)]),
      Page("p2", TRUE, "database_id", "d2",
           [k \in {"n"} |-> Wire(RichTextType, 8)]),
      Page("p3", FALSE, "database_id", "d1", NoProps),
      Page("p4", TRUE, "page_id", "k1",
           [k \in {"n", "f"} |-> IF k = "n" THEN Wire(NumberType, 1) ELSE Wire(FormulaType, 2)]),
      Page("p5", TRUE, "database_id", "d1",
           [k \in {"f"} |-> Wire(FormulaType, 3)]) }

PageIds == {p.id : p \in Pages}

PageOf(pid) == CHOOSE p \in Pages : p.id = pid

DEFAULT_DB_PREFIX == <<"d", "b", ":", " ">>

Child(type, title, id) == [type |-> type, title |-> title, id |-> id]

\* every block the container page can hold, in the order a listing returns them
ChildUniverse ==
    << Child("child_database", DEFAULT_DB_PREFIX \o NameA, "d1"),
       Child("child_database", DEFAULT_DB_PREFIX \o NameB, "d2"),
       Child("child_database", DEFAULT_DB_PREFIX \o NameA, "d9"),
       Child("child_page", DEFAULT_DB_PREFIX \o NameBx, "k1") >>

\* client.blocks.children.list({block_id: dbPageId}).results
ListResults(present) ==
    LET F[i \in 0..Len(ChildUniverse)] ==
            IF i = 0 THEN <<>>
            ELSE IF i \in present THEN Append(F[i - 1], ChildUniverse[i]) ELSE F[i - 1]
    IN  F[Len(ChildUniverse)]

(***************************************************************************)
(* Maps (Map<string, string>, Record<string, string>).                     *)
(***************************************************************************)
EmptyMap == [k \in {} |-> None]

MapSet(m, k, v) == [x \in DOMAIN m \cup {k} |-> IF x = k THEN v ELSE m[x]]

\* the static table of the dbMap option
StaticTable == MapSet(MapSet(EmptyMap, NameA, "d1"), NameB, "d2")

(***************************************************************************)
(* Errors: the message of the thrown Error, and what the message names.    *)
(***************************************************************************)
Err(msg, name, actual, declared) ==
    [msg |-> msg, name |-> name, actual |-> actual, declared |-> declared]

NoErr == Err(None, "", <<>>, <<>>)
Fail(msg) == Err(msg, "", <<>>, <<>>)

\* an error thrown by the store client itself (network, object_not_found, ...)
StoreError == Fail("store error")

(***************************************************************************)
(* Field codecs (schema.ts).  A JavaScript value is a tagged primitive     *)
(* (Str, Num, Bool, Null, Undefined), an object Obj(fields) or an array (a *)
(* sequence).  A handler or composer returns Done(value) or throws.        *)
(***************************************************************************)
Obj(fields) == [t |-> "object", v |-> fields]

\* o.k: the property, undefined when the object has none of that name
Get(o, k) == IF k \in DOMAIN o.v THEN o.v[k] ELSE Undefined

Nullish(v) == v.t \in {"null", "undefined"}

\* o?.k
OptGet(o, k) == IF Nullish(o) THEN Undefined ELSE Get(o, k)

\* v ?? d
Coalesce(v, d) == IF Nullish(v) THEN d ELSE v

\* !v
Falsy(v) ==
    \/ Nullish(v)
    \/ v.t = "number" /\ v.v = 0
    \/ v.t = "string" /\ v.v = ""
    \/ v.t = "boolean" /\ ~v.v

\* v || d, in the place of v ?? d
OrElse(v, d) == IF Falsy(v) THEN d ELSE v

\* values.includes(x)
Includes(values, x) == \E i \in DOMAIN values : values[i] = x

\* the text '' + v appends
ToText(v) ==
    IF v.t = "string" THEN v.v
    ELSE IF v.t = "undefined" THEN "undefined"
    ELSE IF v.t = "null" THEN "null"
    ELSE "[object Object]"

Done(value) == [ok |-> TRUE, value |-> value, msg |-> None]
Threw(msg) == [ok |-> FALSE, value |-> Undefined, msg |-> msg]

\* packPlainText: arr.reduce((acc, cur) => acc + cur.plain_text, '')
RECURSIVE PackFrom(_, _, _)
PackFrom(arr, i, acc) ==
    IF i > Len(arr) THEN acc
    ELSE PackFrom(arr, i + 1, acc \o ToText(Get(arr[i], "plain_text")))

packPlainText(arr) == Str(PackFrom(arr, 1, ""))

\* rich_text().plainText(), title().plainText()
plainTextHandler(value) == Done(packPlainText(value))
plainTextComposer(value) == Done(<<Obj([text |-> Obj([content |-> value])])>>)

\* a plausible slip: the default is taken for every falsy payload
rawWithFalsyDefault(defaultValue, value) == Done(OrElse(value, defaultValue))

\* rawWithDefault(defaultValue): handler: value => value ?? defaultValue
rawWithDefaultHandler(defaultValue, value) == Done(Coalesce(value, defaultValue))

\* multi_select().strings()
stringsHandler(value) == Done([i \in DOMAIN value |-> Get(value[i], "name")])
stringsComposer(value) == Done([i \in DOMAIN value |-> Obj([name |-> value[i]])])

\* a plausible slip: the names are encoded without the look at the allow-list
stringEnumsUnchecked(values, value) == stringsComposer(value)

\* multi_select().stringEnums(...values)
stringEnumsHandler(values, value) ==
    LET names == [i \in DOMAIN value |-> Get(value[i], "name")]
    IN  IF ~(\A i \in DOMAIN names : Includes(values, names[i]))
        THEN Threw("Invalid status")
        ELSE Done(names)
stringEnumsComposer(values, value) ==
    IF ~(\A i \in DOMAIN value : Includes(values, value[i]))
    THEN Threw("Invalid status")
    ELSE Done([i \in DOMAIN value |-> Obj([name |-> value[i]])])

\* select().stringEnum(...values)
stringEnumHandler(values, value) ==
    LET name == OptGet(value, "name")
    IN  IF ~Includes(values, name) THEN Threw("Invalid status: ") ELSE Done(name)
stringEnumComposer(values, value) ==
    IF ~Includes(values, value) THEN Threw("Invalid status: ")
    ELSE Done(IF ~Falsy(value) THEN Obj([name |-> value]) ELSE Null)

\* date().startDate()
startDateHandler(value) == Done(Coalesce(OptGet(value, "start"), Str("")))
startDateComposer(value) == Done(Obj([start |-> value]))

\* a plausible slip: the end of the range is not read
dateRangeStartOnly(value) ==
    Done(Obj([start |-> Coalesce(OptGet(value, "start"), Str("")), end |-> Str("")]))

\* date().dateRange()
dateRangeHandler(value) ==
    Done(Obj([start |-> Coalesce(OptGet(value, "start"), Str("")),
              end |-> Coalesce(OptGet(value, "end"), Str(""))]))
dateRangeComposer(value) == Done(value)

\* relation().ids()
idsHandler(value) == Done([i \in DOMAIN value |-> Get(value[i], "id")])
idsComposer(value) == Done([i \in DOMAIN value |-> Obj([id |-> value[i]])])

\* relation().singleId(): value[0].id
singleIdHandler(value) ==
    IF value = <<>> THEN Threw("TypeError") ELSE Done(Get(value[1], "id"))
singleIdComposer(value) == Done(<<Obj([id |-> value])>>)

\* status().string()
statusStringHandler(value) == Done(Coalesce(OptGet(value, "name"), Str("")))
statusStringComposer(value) == Done(Obj([name |-> value]))

\* select().optionalString()
optionalStringHandler(value) == Done(OptGet(value, "name"))

\* a plausible slip: an option is made of whatever value comes
optionalStringAlwaysNamed(value) == Done(Obj([name |-> value]))

optionalStringComposer(value) == Done(IF ~Falsy(value) THEN Obj([name |-> value]) ELSE Null)

(***************************************************************************)
(* files(): the text of a URL is taken apart, so the strings of the files  *)
(* codecs hold sequences of one-character strings.                         *)
(***************************************************************************)
\* 'https://www.notion.so/image/' + encodeURIComponent(preSignedUrl.split('?')[0])
\* + '?id=' + pageId + '&table=block'; encodeURIComponent leaves the letters, the
\* digits and '.' of the URL and percent-encodes its delimiters
convertNotionImage(pageId, preSignedUrl) ==
    LET base == SplitFirst(preSignedUrl.v, <<"?">>)
        escaped(c) == IF c = ":" THEN <<"%", "3", "A">>
                      ELSE IF c = "/" THEN <<"%", "2", "F">>
                      ELSE IF c = "?" THEN <<"%", "3", "F">>
                      ELSE IF c = "=" THEN <<"%", "3", "D">>
                      ELSE <<c>>
        encoded[i \in 0..Len(base)] ==
            IF i = 0 THEN <<>> ELSE encoded[i - 1] \o escaped(base[i])
    IN  Str(<<"h", "t", "t", "p", "s", ":", "/", "/", "w", "w", "w", ".", "n", "o", "t",
              "i", "o", "n", ".", "s", "o", "/", "i", "m", "a", "g", "e", "/">>
            \o encoded[Len(base)]
            \o <<"?", "i", "d", "=">> \o pageId.v
            \o <<"&", "t", "a", "b", "l", "e", "=", "b", "l", "o", "c", "k">>)

\* a plausible slip: the externally linked files are left out
FileUrlInternalOnly(file) ==
    IF "file" \in DOMAIN file.v THEN Get(Get(file, "file"), "url") ELSE Undefined

\* the result of one step of urls()'s reduce: file.file.url, file.external.url
\* or undefined
FileUrl(file) ==
    IF "file" \in DOMAIN file.v THEN Get(Get(file, "file"), "url")
    ELSE IF "external" \in DOMAIN file.v THEN Get(Get(file, "external"), "url")
    ELSE Undefined

\* files().urls(): value.reduce(..., [])
urlsHandler(value) ==
    LET acc[i \in 0..Len(value)] ==
            IF i = 0 THEN <<>>
            ELSE LET result == FileUrl(value[i])
                 IN  IF result = Undefined THEN acc[i - 1] ELSE Append(acc[i - 1], result)
    IN  Done(acc[Len(value)])

\* a plausible slip: the first descriptor that has a URL is taken
singleUrlOfFirstResolved(value) ==
    LET urls == urlsHandler(value).value
    IN  Done(IF urls = <<>> THEN Str(<<>>) ELSE urls[1])

\* files().singleUrl()
singleUrlHandler(value) ==
    IF value = <<>> THEN Done(Str(<<>>))
    ELSE LET file == value[1]
         IN  IF "file" \in DOMAIN file.v THEN Done(Get(Get(file, "file"), "url"))
             ELSE IF "external" \in DOMAIN file.v THEN Done(Get(Get(file, "external"), "url"))
             ELSE Done(Str(<<>>))

\* files().notionImageUrls(): id is the id of the page
notionImageUrlsHandler(id, value) ==
    LET acc[i \in 0..Len(value)] ==
            IF i = 0 THEN <<>>
            ELSE IF "file" \in DOMAIN value[i].v
            THEN Append(acc[i - 1], convertNotionImage(id, Get(Get(value[i], "file"), "url")))
            ELSE acc[i - 1]
    IN  Done(acc[Len(value)])

\* files().singleNotionImageUrl()
singleNotionImageUrlHandler(id, value) ==
    IF value = <<>> THEN Done(Str(<<>>))
    ELSE LET file == value[1]
         IN  IF "file" \in DOMAIN file.v
             THEN Done(convertNotionImage(id, Get(Get(file, "file"), "url")))
             ELSE Done(Str(<<>>))

(***************************************************************************)
(* relation().objects(mapping).  A mapping is the list of its entries      *)
(* [key, item] in Object.entries order; an item is a rollup item           *)
(* {rollupField, def} or a definition (rollupField is none).               *)
(***************************************************************************)
RECURSIVE HandleAs(_, _, _)

\* the body of the forEach for one entry of the mapping: the value given to
\* mappedObject[key], or the error thrown
MappedValue(item, id, index, properties) ==
    IF item.rollupField # None
    THEN LET rollupField == item.rollupField
             def == item.def
             rollupProperty == Get(properties, rollupField)
         IN  IF \/ Falsy(rollupProperty)
                \/ Get(rollupProperty, "type") # Str("rollup")
                \/ Get(Get(rollupProperty, "rollup"), "type") # Str("array")
             THEN Threw("Invalid rollup field: " \o rollupField)
             ELSE LET array == Get(Get(rollupProperty, "rollup"), "array")
                  IN  IF index > Len(array)
                      THEN \* array[index] is undefined: property.type throws a TypeError
                           Threw("TypeError")
                      ELSE LET property == array[index]
                           IN  IF Get(property, "type") # Str(def.type)
                               THEN Threw("Property " \o rollupField \o " type mismatch: "
                                          \o Get(property, "type").v \o " !== " \o def.type)
                               ELSE HandleAs(def.kind, Undefined, Get(property, def.type))
    ELSE IF item.def.type # "__id"
    THEN Threw("Invalid relation mapping: " \o item.key)
    ELSE \* item.handler(id, {}): the raw handler of __id()
         Done(id)

\* the callback of value.map: the object made for the related id at index
MappedObject(mapping, id, index, properties) ==
    LET made[k \in 0..Len(mapping)] ==
            IF k = 0 THEN Done(EmptyMap)
            ELSE IF ~made[k - 1].ok THEN made[k - 1]
            ELSE LET r == MappedValue(mapping[k], id, index, properties)
                 IN  IF ~r.ok THEN r
                     ELSE Done(MapSet(made[k - 1].value, mapping[k].key, r.value))
        last == made[Len(mapping)]
    IN  IF last.ok THEN Done(Obj(last.value)) ELSE last

\* relation().objects(mapping): the handler, given the page's properties
objectsHandler(mapping, properties, value) ==
    LET acc[i \in 0..Len(value)] ==
            IF i = 0 THEN Done(<<>>)
            ELSE IF ~acc[i - 1].ok THEN acc[i - 1]
            ELSE LET r == MappedObject(mapping, Get(value[i], "id"), i, properties)
                 IN  IF ~r.ok THEN r ELSE Done(Append(acc[i - 1].value, r.value))
    IN  acc[Len(value)]

\* def.handler(value, {page}) of the codec of that kind; arg holds what the
\* codec was made with or, where the handler reads the page, what it reads of it
HandleAs(kind, arg, value) ==
    CASE kind = "raw" -> Done(value)
      [] kind = "objects" -> objectsHandler(arg.mapping, arg.properties, value)
      [] kind = "strings" -> stringsHandler(value)
      [] kind = "stringEnums" -> stringEnumsHandler(arg, value)
      [] kind = "stringEnum" -> stringEnumHandler(arg, value)
      [] kind = "startDate" -> startDateHandler(value)
      [] kind = "dateRange" -> dateRangeHandler(value)
      [] kind = "ids" -> idsHandler(value)
      [] kind = "singleId" -> singleIdHandler(value)
      [] kind = "statusString" -> statusStringHandler(value)
      [] kind \in {"richTextPlain", "titlePlain"} -> plainTextHandler(value)
      [] kind \in {"rawWithDefault", "mutableRawWithDefault"} ->
            rawWithDefaultHandler(arg, value)
      [] kind = "optionalString" -> optionalStringHandler(value)
      [] kind = "urls" -> urlsHandler(value)
      [] kind = "singleUrl" -> singleUrlHandler(value)
      [] kind = "notionImageUrls" -> notionImageUrlsHandler(arg, value)
      [] kind = "singleNotionImageUrl" -> singleNotionImageUrlHandler(arg, value)

\* def.composer(value) of the codec of that kind
ComposeAs(kind, arg, value) ==
    CASE kind = "strings" -> stringsComposer(value)
      [] kind = "stringEnums" -> stringEnumsComposer(arg, value)
      [] kind = "stringEnum" -> stringEnumComposer(arg, value)
      [] kind = "startDate" -> startDateComposer(value)
      [] kind = "dateRange" -> dateRangeComposer(value)
      [] kind = "ids" -> idsComposer(value)
      [] kind = "singleId" -> singleIdComposer(value)
      [] kind = "statusString" -> statusStringComposer(value)
      [] kind \in {"richTextPlain", "titlePlain"} -> plainTextComposer(value)
      [] kind = "mutableRawWithDefault" -> Done(value)
      [] kind = "optionalString" -> optionalStringComposer(value)

(***************************************************************************)
(* Record transcoder.                                                      *)
(***************************************************************************)
\* isMetadataType: type.startsWith('__')
isMetadataType(type) == type[1] = "__"

\* def.handler(value, ...) of the fields the schemas declare: the raw projection
\* value => value, or select().stringEnum's
Handle(def, value) ==
    IF def.handler = "raw" THEN Done(value) ELSE stringEnumHandler(def.values, value)

\* def.composer(value): the raw projection value => value, or select().stringEnum's
Compose(def, value) ==
    IF def.composer = "raw" THEN Done(value) ELSE stringEnumComposer(def.values, value)

RowOk(value, invoked) == [ok |-> TRUE, err |-> NoErr, value |-> value, invoked |-> invoked]
RowErr(err, invoked) == [ok |-> FALSE, err |-> err, value |-> EmptyMap, invoked |-> invoked]

\* a plausible slip: the wire tag is not compared with the declared tag
TagNeverDiffers(property, type) == FALSE

\* the wire-tag check of processRow: property.type !== type
TypeMismatch(property, type) == property.type # type

RECURSIVE ProcessFields(_, _, _, _, _)
ProcessFields(page, schema, i, value, invoked) ==
    IF i > Len(schema) THEN RowOk(value, invoked)
    ELSE LET def == schema[i]
             type == def.type
         IN  IF isMetadataType(type)
             THEN \* rawKey = type.slice(2); value = page[rawKey]
                  ProcessFields(page, schema, i + 1,
                                MapSet(value, def.key, Handle(def, Str(page[type[2]])).value),
                                Append(invoked, def.key))
             ELSE LET name == def.key
                  IN  IF name \notin DOMAIN page.properties
                      THEN RowErr(Err("Property is not found", name, <<>>, <<>>), invoked)
                      ELSE LET property == page.properties[name]
                           IN  IF TypeMismatch(property, type)
                               THEN RowErr(Err("Property type mismatch", name,
                                               property.type, type), invoked)
                               ELSE LET handled == Handle(def, property.val)
                                    IN  IF ~handled.ok
                                        THEN \* the handler threw
                                             RowErr(Err(handled.msg, name, <<>>, <<>>),
                                                    Append(invoked, def.key))
                                        ELSE ProcessFields(page, schema, i + 1,
                                                 MapSet(value, def.key, handled.value),
                                                 Append(invoked, def.key))

processRow(page, schema) == ProcessFields(page, schema, 1, EmptyMap, <<>>)

\* schema[key]: the entry of that name, or undefined
SchemaHas(schema, key) == \E i \in 1..Len(schema) : schema[i].key = key
SchemaGet(schema, key) == schema[CHOOSE i \in 1..Len(schema) : schema[i].key = key]

\* the parameters createMutateData returns: the field patch under 'properties',
\* and beside it what the mutable metadata fields wrote
MutOk(props, meta) == [ok |-> TRUE, err |-> NoErr, properties |-> props, meta |-> meta]
MutErr(err) == [ok |-> FALSE, err |-> err, properties |-> EmptyMap, meta |-> EmptyMap]

RECURSIVE MutateFields(_, _, _, _, _)
MutateFields(data, schema, i, props, meta) ==
    IF i > Len(data) THEN MutOk(props, meta)
    ELSE LET key == data[i][1]
             value == data[i][2]
         IN  IF ~SchemaHas(schema, key)
             THEN \* 'composer' in undefined throws a TypeError
                  MutErr(Err("TypeError", key, <<>>, <<>>))
             ELSE LET def == SchemaGet(schema, key)
                  IN  IF def.composer = None
                      THEN MutErr(Err("Cannot mutate property: it has no composer",
                                      key, <<>>, def.type))
                      ELSE LET composed == Compose(def, value)
                           IN  IF ~composed.ok
                               THEN \* the composer threw
                                    MutErr(Err(composed.msg, key, <<>>, def.type))
                               ELSE IF isMetadataType(def.type)
                               THEN \* parameters[type.slice(2)] = composer(value)
                                    MutateFields(data, schema, i + 1, props,
                                                 MapSet(meta, def.type[2], composed.value))
                               ELSE MutateFields(data, schema, i + 1,
                                                 MapSet(props, key, composed.value), meta)

\* a plausible slip: every supplied key is written as it is, composer or not
MutateUnchecked(data, schema) ==
    MutOk([k \in {data[i][1] : i \in DOMAIN data} |->
              data[CHOOSE i \in DOMAIN data : data[i][1] = k][2]],
          EmptyMap)

\* a plausible slip: the keys the schema does not declare are skipped
MutateDropUnknown(data, schema) ==
    MutateFields(SelectSeq(data, LAMBDA e : SchemaHas(schema, e[1])), schema, 1,
                 EmptyMap, EmptyMap)

\* a plausible slip: a field that cannot be encoded is skipped, and the rest is sent
MutateSkipFailing(data, schema) ==
    MutateFields(SelectSeq(data, LAMBDA e : /\ SchemaHas(schema, e[1])
                                            /\ SchemaGet(schema, e[1]).composer # None
                                            /\ Compose(SchemaGet(schema, e[1]), e[2]).ok),
                 schema, 1, EmptyMap, EmptyMap)

createMutateData(data, schema) == MutateFields(data, schema, 1, EmptyMap, EmptyMap)

\* the domain patches the caller passes to insertEntry and updateEntry
Patches == { <<>>, << <<"n", Num(3)>> >>, << <<"f", Num(4)>> >>, << <<"q", Num(1)>> >>,
             << <<"i", Num(9)>> >>, << <<"n", Num(3)>>, <<"q", Num(1)>> >>,
             << <<"s", Str("c")>> >> }

(***************************************************************************)
(* Collection resolver.                                                    *)
(***************************************************************************)
RECURSIVE FillFrom(_, _, _, _)
FillFrom(map, results, dbPrefix, i) ==
    IF i > Len(results) THEN map
    ELSE LET database == results[i]
         IN  IF database.type = "child_database" /\ StartsWith(database.title, dbPrefix)
             THEN FillFrom(MapSet(map, Slice(database.title, Len(dbPrefix)), database.id),
                           results, dbPrefix, i + 1)
             ELSE FillFrom(map, results, dbPrefix, i + 1)

\* a plausible slip: the loop is left at the first collection it finds
FillFirstMatch(map, results, dbPrefix) ==
    LET F[i \in 0..Len(results)] ==
            IF i = 0 THEN map
            ELSE IF /\ F[i - 1] = map
                    /\ results[i].type = "child_database"
                    /\ StartsWith(results[i].title, dbPrefix)
            THEN MapSet(F[i - 1], Slice(results[i].title, Len(dbPrefix)), results[i].id)
            ELSE F[i - 1]
    IN  F[Len(results)]

\* a plausible slip: the kind of the child is not looked at
FillAnyChild(map, results, dbPrefix) ==
    LET F[i \in 0..Len(results)] ==
            IF i = 0 THEN map
            ELSE IF StartsWith(results[i].title, dbPrefix)
            THEN MapSet(F[i - 1], Slice(results[i].title, Len(dbPrefix)), results[i].id)
            ELSE F[i - 1]
    IN  F[Len(results)]

\* the loop of fillDatabaseIdMap over databases.results: it adds to the map it finds
fillDatabaseIdMap(map, results, dbPrefix) == FillFrom(map, results, dbPrefix, 1)

VARIABLES
    options,        \* which options createNotionDBClient was given
    built,          \* "no", "ok", or the message construction failed with
    client,         \* the store client in use: "notionClient", "newClient" or none
    mode,           \* "static" (dbMap), "discovery" (dbPageId) or none
    dbMap,          \* options.dbMap
    databaseIdMap,  \* the resolver cache of discovery mode
    container,      \* which blocks of ChildUniverse the container page holds now
    everListed,     \* a listing of the container was issued at some time
    calls,          \* the caller's operations: position and locals
    codec           \* a field codec at work: its input, wire value and output

vars == <<options, built, client, mode, dbMap, databaseIdMap, container, everListed, calls,
          codec>>

Tasks == {1}

NoRow == [ok |-> TRUE, err |-> NoErr, value |-> EmptyMap, invoked |-> <<>>]

\* a call before it starts: every local at its initial value
Idle ==
    [op |-> None, name |-> <<>>, page |-> None, data |-> <<>>, kv |-> <<>>,
     params |-> EmptyMap,  \* the query parameters the caller passed
     limit |-> Undefined,  \* the limit the caller passed
     sent |-> EmptyMap,    \* the arguments client.databases.query was given
     paged |-> FALSE,      \* ... through collectPaginatedAPI
     returned |-> <<>>,    \* the ids of the pages the store returned to the query
     pc |-> "idle",        \* the store call the record branch waits for, or "end"
     cpc |-> None,         \* the content branch: none, "content", "got" or "err"
     out |-> None,         \* what the caller has seen: "pending", "ok" or "err"
     err |-> NoErr,        \* the error the caller has seen
     inside |-> FALSE,     \* the error was thrown inside useDatabaseId
     late |-> FALSE,       \* the error came after the resolver had passed an id on
     afterFail |-> FALSE,  \* the caller's previous operation failed after it had resolved an id
     afterThrow |-> FALSE, \* ... failed by an error thrown inside useDatabaseId
     key |-> <<>>,         \* the key the resolver looked up
     had |-> FALSE,        \* databaseIdMap.has(rawName) when the operation began
     listings |-> 0,       \* container listings this operation issued
     lookups |-> 0,        \* lookups of the key this operation made
     listed |-> EmptyMap,  \* until the lookup: what the listing alone maps names to
     id |-> None,          \* the id the resolver passed to the callback
     target |-> None,      \* the collection id the store call was given
     fetched |-> None,     \* the page the store returned to retrieve / query
     checked |-> FALSE,    \* assertPageInDatabase returned normally
     writes |-> <<>>,      \* create / update / trash requests sent to the store
     rowOf |-> None,       \* the page of the last processRow
     row |-> NoRow,        \* the outcome of the last processRow
     result |-> <<>>,      \* the decoded records returned to the caller
     content |-> FALSE]    \* the result carries the page's content

\* no field codec at work
NoCodec ==
    [kind |-> None, arg |-> Undefined, dir |-> None, stage |-> None,
     x |-> Undefined, wire |-> Undefined, out |-> Undefined, msg |-> None]

Init ==
    /\ codec = NoCodec
    /\ options \in [notionToken : BOOLEAN, notionClient : BOOLEAN,
                    dbMap : BOOLEAN, dbPageId : BOOLEAN]
    /\ built = "no"
    /\ client = None
    /\ mode = None
    /\ dbMap = IF options.dbMap THEN StaticTable ELSE EmptyMap
    /\ databaseIdMap = EmptyMap
    /\ container = {1, 2, 4}
    /\ everListed = FALSE
    /\ calls = [t \in Tasks |-> Idle]

(***************************************************************************)
(* createNotionDBClient: createClient, then createUseDatabaseFunction.     *)
(***************************************************************************)
\* a plausible slip: the token is looked for first, and the client is made from it
ClientTokenFirst(o) ==
    IF o.notionToken THEN "newClient"
    ELSE IF o.notionClient THEN "notionClient"
    ELSE None

\* createClient: 'notionClient' in options, else 'notionToken' in options, else throw
createClient(o) ==
    IF o.notionClient THEN "notionClient"
    ELSE IF o.notionToken THEN "newClient"
    ELSE None

\* a plausible slip: the container is looked for first
ModePageFirst(o) ==
    IF o.dbPageId THEN "discovery"
    ELSE IF o.dbMap THEN "static"
    ELSE None

\* createUseDatabaseFunction: 'dbMap' in options, else 'dbPageId' in options, else throw
createUseDatabaseFunction(o) ==
    IF o.dbMap THEN "static"
    ELSE IF o.dbPageId THEN "discovery"
    ELSE None

Construct ==
    /\ built = "no"
    /\ IF createClient(options) = None
       THEN /\ built' = "At least one of notionToken or notionClient must be provided"
            /\ UNCHANGED <<client, mode>>
       ELSE IF createUseDatabaseFunction(options) = None
       THEN /\ built' = "At least one of dbMap or dbPageId must be provided"
            /\ UNCHANGED <<client, mode>>
       ELSE /\ built' = "ok"
            /\ client' = createClient(options)
            /\ mode' = createUseDatabaseFunction(options)
    /\ UNCHANGED <<options, dbMap, databaseIdMap, container, everListed, calls, codec>>

(***************************************************************************)
(* The environment: a collection is added to the container, or removed     *)
(* from it (a rename or a re-creation is a removal and an addition).       *)
(***************************************************************************)
ContainerChanges ==
    /\ built = "ok"
    /\ mode = "discovery"
    /\ \E i \in 1..Len(ChildUniverse) :
          container' = IF i \in container THEN container \ {i} ELSE container \cup {i}
    /\ UNCHANGED <<options, built, client, mode, dbMap, databaseIdMap, everListed, calls,
                   codec>>

(***************************************************************************)
(* The store's answers.                                                    *)
(***************************************************************************)
\* the pages of the collection with that id
PagesIn(id) == {p \in Pages : p.parentType = "database_id" /\ p.parentId = id}

\* what client.databases.query may return for a collection: some of its pages,
\* in some order, at most pageSize of them
QueryResults(id, pageSize) ==
    {r \in UNION {[1..n -> PagesIn(id)] : n \in 0..pageSize} :
        \A i, j \in DOMAIN r : i # j => r[i] # r[j]}

\* what client.pages.create may return: a page of the collection, or a partial one
CreateResponses(id) == PagesIn(id) \cup {PageOf("p3")}

\* what client.pages.update may return: the page, in full or as a partial response
UpdateResponses(pid) == {PageOf(pid), [PageOf(pid) EXCEPT !.full = FALSE]}

\* isFullPage(response); 'properties' in result
isFullPage(page) == page.full

\* a plausible slip: the results are decoded without the completeness check
AllTakenFull(results) == TRUE

isAllFullPage(results) == \A i \in DOMAIN results : isFullPage(results[i])

\* a plausible slip: the parent is not compared with the resolved id
AnyParent(page, id) == TRUE

\* the membership test of assertPageInDatabase and queryOneById:
\* page.parent.type === 'database_id' && page.parent.database_id === id
InDatabase(page, id) == page.parentType = "database_id" /\ page.parentId = id

RowsOk(values, row, rowOf) ==
    [ok |-> TRUE, err |-> NoErr, values |-> values, row |-> row, rowOf |-> rowOf]
RowsErr(row, rowOf) ==
    [ok |-> FALSE, err |-> row.err, values |-> <<>>, row |-> row, rowOf |-> rowOf]

RECURSIVE ProcessFrom(_, _, _, _, _, _)
ProcessFrom(results, schema, i, values, row, rowOf) ==
    IF i > Len(results) THEN RowsOk(values, row, rowOf)
    ELSE LET r == processRow(results[i], schema)
         IN  IF r.ok
             THEN ProcessFrom(results, schema, i + 1, Append(values, r.value), r, results[i].id)
             ELSE RowsErr(r, results[i].id)

processRows(results, schema) == ProcessFrom(results, schema, 1, <<>>, NoRow, None)

\* typeof key === 'string'
IsString(v) == v.t = "string"

KvOk(map) == [ok |-> TRUE, err |-> NoErr, map |-> map]
KvErr == [ok |-> FALSE, err |-> Fail("Key is not a string"), map |-> EmptyMap]

RECURSIVE KVFrom(_, _, _, _, _)
KVFrom(processed, keyProp, valueProp, i, result) ==
    IF i > Len(processed) THEN KvOk(result)
    ELSE LET rec == processed[i]
         IN  IF keyProp \notin DOMAIN rec \/ ~IsString(rec[keyProp])
             THEN KvErr
             ELSE KVFrom(processed, keyProp, valueProp, i + 1,
                         MapSet(result, rec[keyProp].v,
                                IF valueProp \in DOMAIN rec THEN rec[valueProp]
                                ELSE Str("undefined")))

\* a plausible slip: a key that is there already keeps its value
KVFirstWins(processed, keyProp, valueProp) ==
    LET r == KVFrom(processed, keyProp, valueProp, 1, EmptyMap)
    IN  IF ~r.ok THEN r
        ELSE KvOk([k \in DOMAIN r.map |->
                      LET first == CHOOSE i \in DOMAIN processed :
                                      /\ processed[i][keyProp].v = k
                                      /\ \A j \in DOMAIN processed :
                                            processed[j][keyProp].v = k => i <= j
                      IN  IF valueProp \in DOMAIN processed[first]
                          THEN processed[first][valueProp] ELSE Str("undefined")])

processKVResults(processed, keyProp, valueProp) ==
    KVFrom(processed, keyProp, valueProp, 1, EmptyMap)

(***************************************************************************)
(* The operations of the client.                                           *)
(***************************************************************************)
\* the query parameters a caller passes: the default {}, or a filter and sorts
\* with a database_id of the caller's own among them
Params ==
    { EmptyMap,
      [k \in {"filter", "sorts", "database_id"} |->
          IF k = "filter" THEN "f1" ELSE IF k = "sorts" THEN "s1" ELSE "d2"] }

\* the limits a caller passes to query
Limits == {Undefined} \cup {Num(n) : n \in 0..MaxResults}

\* if (limit): undefined and 0 are falsy
Truthy(v) == v.t = "number" /\ v.v # 0

\* a plausible slip: the caller's parameters are spread last
QueryArgsParamsLast(params, id, limit) ==
    LET own == IF "database_id" \in DOMAIN params THEN params["database_id"] ELSE id
    IN  IF Truthy(limit)
        THEN [args |-> MapSet(MapSet(params, "database_id", own), "page_size", limit.v),
              paged |-> FALSE]
        ELSE [args |-> MapSet(params, "database_id", own), paged |-> TRUE]

\* the arguments of query's client.databases.query: {...params, database_id: id,
\* page_size: limit} in one request, or {...params, database_id: id} paginated
QueryArgs(params, id, limit) ==
    IF Truthy(limit)
    THEN [args |-> MapSet(MapSet(params, "database_id", id), "page_size", limit.v),
          paged |-> FALSE]
    ELSE [args |-> MapSet(params, "database_id", id), paged |-> TRUE]

\* the arguments of the operation's client.databases.query
QueryRequest(c, id) ==
    IF c.op \in {"query", "queryFirst", "queryOneByUniqueId"}
    THEN QueryArgs(c.params, id, c.limit)
    ELSE IF c.op = "queryKV"
    THEN [args |-> MapSet(EmptyMap, "database_id", id), paged |-> TRUE]
    ELSE IF c.op = "queryText"
    THEN [args |-> MapSet(MapSet(MapSet(EmptyMap, "database_id", id), "filter", "title"),
                          "page_size", 1),
          paged |-> FALSE]
    ELSE \* queryOneWithContentByUniqueId
         [args |-> MapSet(MapSet(EmptyMap, "database_id", id), "filter", "unique_id"),
          paged |-> FALSE]

\* what the store may return to those arguments: all that match when the request
\* is paginated to the end, at most page_size of them to one request
StoreAnswers(args, paged) ==
    QueryResults(args["database_id"],
                 IF ~paged /\ "page_size" \in DOMAIN args /\ args["page_size"] < MaxResults
                 THEN args["page_size"] ELSE MaxResults)

Ops == {"query", "queryFirst", "queryOneById", "queryPageContentById",
        "queryOneWithContentById", "queryOneByUniqueId",
        "queryOneWithContentByUniqueId", "queryKV", "queryText",
        "insertEntry", "updateEntry", "deleteEntry"}

ListQueryOps == {"query", "queryFirst", "queryOneByUniqueId", "queryKV"}
QueryOps == ListQueryOps \cup {"queryText", "queryOneWithContentByUniqueId"}
RetrieveOps == {"queryOneById", "queryOneWithContentById"}
AssertOps == {"updateEntry", "deleteEntry"}
PageOps == RetrieveOps \cup AssertOps \cup {"queryPageContentById"}
DataOps == {"insertEntry", "updateEntry"}
ContentOps == {"queryPageContentById", "queryOneWithContentById"}

\* a plausible slip: the request is sent without the resolved parent
RequestNoParent(kind, parent, page, properties, meta) ==
    [kind |-> kind, parent |-> None, page |-> page, properties |-> properties, meta |-> meta]

Request(kind, parent, page, properties, meta) ==
    [kind |-> kind, parent |-> parent, page |-> page, properties |-> properties, meta |-> meta]

\* the error reaches the caller, unless the caller has seen an earlier one
Thrown(c, e, inside) ==
    [c EXCEPT !.pc = "end",
              !.out = IF c.out = "pending" THEN "err" ELSE @,
              !.err = IF c.out = "pending" THEN e ELSE @,
              !.inside = IF c.out = "pending" THEN inside ELSE @,
              !.late = IF c.out = "pending" THEN c.id # None ELSE @]

\* a plausible slip: the record is handed to the caller without the join
ReturnedUnjoined(c, result) ==
    [c EXCEPT !.pc = "end",
              !.result = result,
              !.out = IF c.out = "pending" THEN "ok" ELSE @,
              !.content = c.out = "pending" /\ c.cpc = "got"]

\* the record branch is through; the caller has its result once every branch is
\* (Promise.all), and the content is merged under the caller's key
Returned(c, result) ==
    LET joined == c.cpc \in {None, "got"}
    IN  [c EXCEPT !.pc = "end",
                  !.result = result,
                  !.out = IF c.out = "pending" /\ joined THEN "ok" ELSE @,
                  !.content = c.out = "pending" /\ joined /\ c.cpc = "got"]

\* catch (e) { databaseIdMap.clear(); throw e; }
ClearedMap(map) == EmptyMap

\* a plausible slip: the catch block empties the map and lists and looks up again
RetryOnce(t, c, e) ==
    IF mode = "discovery" /\ c.listings < 2
    THEN /\ calls' = [calls EXCEPT ![t] = [c EXCEPT !.pc = "list", !.listings = @ + 1]]
         /\ databaseIdMap' = EmptyMap
    ELSE /\ calls' = [calls EXCEPT ![t] = Thrown(c, e, TRUE)]
         /\ databaseIdMap' = IF mode = "discovery" THEN EmptyMap ELSE databaseIdMap

\* an error thrown inside useDatabaseId's try block
Reject(t, c, e) ==
    /\ calls' = [calls EXCEPT ![t] = Thrown(c, e, TRUE)]
    /\ databaseIdMap' = IF mode = "discovery" THEN ClearedMap(databaseIdMap)
                        ELSE databaseIdMap

\* an error thrown by the operation outside useDatabaseId
RejectOutside(t, c, e) ==
    /\ calls' = [calls EXCEPT ![t] = Thrown(c, e, FALSE)]
    /\ UNCHANGED databaseIdMap

Goto(t, c) ==
    /\ calls' = [calls EXCEPT ![t] = c]
    /\ UNCHANGED databaseIdMap

\* callback(id): the operation's callback up to its first store call
EnterCallback(t, c0, id) ==
    LET c == [c0 EXCEPT !.id = id]
    IN  IF c.op \in QueryOps
        THEN LET q == QueryRequest(c, id)
             IN  Goto(t, [c EXCEPT !.pc = "dbquery", !.sent = q.args, !.paged = q.paged,
                                   !.target = q.args["database_id"]])
        ELSE IF c.op \in RetrieveOps
        THEN Goto(t, [c EXCEPT !.pc = "retrieve"])
        ELSE IF c.op \in AssertOps
        THEN Goto(t, [c EXCEPT !.pc = "assert"])
        ELSE \* insertEntry: the arguments of client.pages.create are built first
             LET m == createMutateData(c.data, dbSchemas[c.name])
             IN  IF m.ok
                 THEN Goto(t, [c EXCEPT !.pc = "create", !.target = id,
                                        !.writes = <<Request("create", id, None, m.properties,
                                                                        m.meta)>>])
                 ELSE Reject(t, c, m.err)

\* useDatabaseId up to its first await on the store
Resolve(t, c0) ==
    LET rawName == RawName(c0.name)
        c == [c0 EXCEPT !.key = rawName]
    IN  IF mode = "static"
        THEN /\ IF rawName \notin DOMAIN dbMap
                THEN Goto(t, Thrown([c EXCEPT !.lookups = 1], Fail("Database not found"), TRUE))
                ELSE EnterCallback(t, [c EXCEPT !.lookups = 1], dbMap[rawName])
             /\ UNCHANGED everListed
        ELSE IF rawName \in DOMAIN databaseIdMap
        THEN /\ EnterCallback(t, [c EXCEPT !.had = TRUE, !.lookups = 1], databaseIdMap[rawName])
             /\ UNCHANGED everListed
        ELSE /\ Goto(t, [c EXCEPT !.pc = "list", !.listings = 1])
             /\ everListed' = TRUE

\* the caller starts an operation
Start(t) ==
    LET prev == calls[t]
    IN  /\ built = "ok"
        /\ prev.pc = "idle"
        /\ \E op \in Ops :
           \E name \in (IF op = "queryPageContentById" THEN {<<>>} ELSE DBNames) :
           \E page \in (IF op \in PageOps THEN PageIds ELSE {None}) :
           \E data \in (IF op \in DataOps THEN Patches ELSE {<<>>}) :
           \E kv \in (IF op = "queryKV" THEN {<<"_id", "n">>, <<"n", "_id">>, <<"c", "f">>}
                      ELSE {<<>>}) :
           \E params \in (IF op \in {"query", "queryFirst"} THEN Params ELSE {EmptyMap}) :
           \E limit \in (IF op = "query" THEN Limits ELSE {Undefined}) :
              LET c0 == [Idle EXCEPT !.op = op, !.name = name, !.page = page, !.data = data,
                                     !.kv = kv, !.out = "pending",
                                     \* queryOneByUniqueId: this.queryFirst(db, {filter})
                                     !.params = IF op = "queryOneByUniqueId"
                                                THEN MapSet(EmptyMap, "filter", "unique_id")
                                                ELSE params,
                                     \* queryFirst: this.query(db, params, 1)
                                     !.limit = IF op \in {"queryFirst", "queryOneByUniqueId"}
                                               THEN Num(1) ELSE limit,
                                     !.cpc = IF op \in ContentOps THEN "content" ELSE None,
                                     !.afterFail = prev.afterFail,
                                     !.afterThrow = prev.afterThrow]
              IN  IF op = "queryPageContentById"
                  THEN Goto(t, [c0 EXCEPT !.pc = "end"]) /\ UNCHANGED everListed
                  ELSE Resolve(t, c0)
        /\ UNCHANGED <<options, built, client, mode, dbMap, container, codec>>

\* client.blocks.children.list({block_id: dbPageId}) fails
ListFails(t) ==
    /\ calls[t].pc = "list"
    /\ Reject(t, calls[t], StoreError)
    /\ UNCHANGED <<options, built, client, mode, dbMap, container, everListed, codec>>

\* ... or returns, and fillDatabaseIdMap's loop runs
ListReturns(t) ==
    LET c == calls[t]
        results == ListResults(container)
    IN  /\ c.pc = "list"
        /\ databaseIdMap' = fillDatabaseIdMap(databaseIdMap, results, DEFAULT_DB_PREFIX)
        /\ calls' = [calls EXCEPT ![t] =
                        [c EXCEPT !.pc = "lookup",
                                  !.listed = fillDatabaseIdMap(EmptyMap, results, DEFAULT_DB_PREFIX)]]
        /\ UNCHANGED <<options, built, client, mode, dbMap, container, everListed, codec>>

\* getDatabaseId after the await: databaseIdMap.get(rawName), then the callback
Lookup(t) ==
    LET c == [calls[t] EXCEPT !.lookups = @ + 1, !.listed = EmptyMap]
    IN  /\ calls[t].pc = "lookup"
        /\ IF c.key \in DOMAIN databaseIdMap
           THEN EnterCallback(t, c, databaseIdMap[c.key])
           ELSE Reject(t, c, Fail("Database not found"))
        /\ UNCHANGED <<options, built, client, mode, dbMap, container, everListed, codec>>

Rest == <<options, built, client, mode, dbMap, container, everListed, codec>>

\* the store call the record branch waits for fails
StoreCallFails(t) ==
    LET c == calls[t]
    IN  /\ c.pc \in {"dbquery", "blocks", "retrieve", "assert", "create"}
        /\ Reject(t, c, StoreError)
        /\ UNCHANGED Rest

\* client.databases.query returns (collectPaginatedAPI: all pages of results)
QueryReturns(t) ==
    LET c0 == calls[t]
        schema == dbSchemas[c0.name]
    IN  /\ c0.pc = "dbquery"
        /\ \E results \in StoreAnswers(c0.sent, c0.paged) :
              LET c == [c0 EXCEPT !.returned = [i \in DOMAIN results |-> results[i].id]]
              IN
              IF c.op \in ListQueryOps
              THEN IF ~isAllFullPage(results)
                   THEN Reject(t, c, Fail("Not all results are full page"))
                   ELSE LET r == processRows(results, schema)
                            d == [c EXCEPT !.row = r.row, !.rowOf = r.rowOf]
                        IN  IF ~r.ok THEN Reject(t, d, r.err)
                            ELSE IF c.op = "queryKV"
                            THEN LET m == processKVResults(r.values, c.kv[1], c.kv[2])
                                 IN  IF m.ok THEN Goto(t, Returned(d, <<m.map>>))
                                     ELSE Reject(t, d, m.err)
                            ELSE IF c.op = "query" THEN Goto(t, Returned(d, r.values))
                            ELSE \* queryFirst: results[0]
                                 Goto(t, Returned(d, IF r.values = <<>> THEN <<>>
                                                     ELSE <<r.values[1]>>))
              ELSE IF results = <<>>
                   THEN Reject(t, c, Fail("Not found"))
                   ELSE IF c.op = "queryOneWithContentByUniqueId" /\ ~isFullPage(results[1])
                   THEN Reject(t, c, Fail("Not a full page"))
                   ELSE Goto(t, [c EXCEPT !.pc = "blocks", !.fetched = results[1].id])
        /\ UNCHANGED Rest

\* client.blocks.children.list({block_id: uniqueResult.id}) returns
BlocksReturn(t) ==
    LET c == calls[t]
    IN  /\ c.pc = "blocks"
        /\ IF c.op = "queryText"
           THEN Goto(t, [Returned(c, <<>>) EXCEPT !.content = TRUE])
           ELSE LET r == processRow(PageOf(c.fetched), dbSchemas[c.name])
                    d == [c EXCEPT !.row = r, !.rowOf = c.fetched]
                IN  IF r.ok THEN Goto(t, [Returned(d, <<r.value>>) EXCEPT !.content = TRUE])
                    ELSE Reject(t, d, r.err)
        /\ UNCHANGED Rest

\* client.pages.retrieve returns to queryOneById
RetrieveReturns(t) ==
    LET c == [calls[t] EXCEPT !.fetched = calls[t].page]
        response == PageOf(c.page)
    IN  /\ c.pc = "retrieve"
        /\ IF ~isFullPage(response)
           THEN Reject(t, c, Fail("Not a full page"))
           ELSE IF ~InDatabase(response, c.id)
           THEN Reject(t, c, Fail("Page not found in database"))
           ELSE LET r == processRow(response, dbSchemas[c.name])
                    d == [c EXCEPT !.row = r, !.rowOf = response.id]
                IN  IF r.ok THEN Goto(t, Returned(d, <<r.value>>))
                    ELSE Reject(t, d, r.err)
        /\ UNCHANGED Rest

\* collectPaginatedAPI(client.blocks.children.list, {block_id: id}) fails
ContentFails(t) ==
    LET c == calls[t]
    IN  /\ c.cpc = "content"
        /\ calls' = [calls EXCEPT ![t] =
                        [c EXCEPT !.cpc = "err",
                                  !.out = IF c.out = "pending" THEN "err" ELSE @,
                                  !.err = IF c.out = "pending" THEN StoreError ELSE @,
                                  !.late = IF c.out = "pending" THEN c.id # None ELSE @]]
        /\ UNCHANGED databaseIdMap
        /\ UNCHANGED Rest

\* ... or returns: Promise.all resolves once the record is there too
ContentReturns(t) ==
    LET c == calls[t]
        joined == c.pc = "end" /\ c.out = "pending"
    IN  /\ c.cpc = "content"
        /\ calls' = [calls EXCEPT ![t] =
                        [c EXCEPT !.cpc = "got",
                                  !.out = IF joined THEN "ok" ELSE @,
                                  !.content = joined]]
        /\ UNCHANGED databaseIdMap
        /\ UNCHANGED Rest

\* client.pages.retrieve returns to assertPageInDatabase; then updateEntry and
\* deleteEntry go on, outside useDatabaseId, to their client.pages.update
AssertReturns(t) ==
    LET c == [calls[t] EXCEPT !.fetched = calls[t].page]
        page == PageOf(c.page)
    IN  /\ c.pc = "assert"
        /\ IF ~isFullPage(page)
           THEN Reject(t, c, Fail("Not a full page"))
           ELSE IF ~InDatabase(page, c.id)
           THEN Reject(t, c, Fail("Page not found in database"))
           ELSE LET d == [c EXCEPT !.checked = TRUE]
                IN  IF c.op = "deleteEntry"
                    THEN Goto(t, [d EXCEPT !.pc = "trash",
                                           !.writes = <<Request("trash", None, c.page, EmptyMap,
                                                                        EmptyMap)>>])
                    ELSE LET m == createMutateData(c.data, dbSchemas[c.name])
                         IN  IF m.ok
                             THEN Goto(t, [d EXCEPT !.pc = "update",
                                                    !.writes = <<Request("update", None, c.page,
                                                                         m.properties, m.meta)>>])
                             ELSE RejectOutside(t, d, m.err)
        /\ UNCHANGED Rest

\* the client.pages.update of updateEntry or deleteEntry fails
WriteFails(t) ==
    LET c == calls[t]
    IN  /\ c.pc \in {"update", "trash"}
        /\ RejectOutside(t, c, StoreError)
        /\ UNCHANGED Rest

\* client.pages.update({page_id, in_trash: true}) returns
TrashReturns(t) ==
    /\ calls[t].pc = "trash"
    /\ Goto(t, Returned(calls[t], <<>>))
    /\ UNCHANGED Rest

\* client.pages.update returns to updateEntry
UpdateReturns(t) ==
    LET c == calls[t]
    IN  /\ c.pc = "update"
        /\ \E result \in UpdateResponses(c.page) :
              IF ~isFullPage(result)
              THEN RejectOutside(t, c, Fail("Not a full page"))
              ELSE LET r == processRow(result, dbSchemas[c.name])
                       d == [c EXCEPT !.row = r, !.rowOf = result.id]
                   IN  IF r.ok THEN Goto(t, Returned(d, <<r.value>>))
                       ELSE RejectOutside(t, d, r.err)
        /\ UNCHANGED Rest

\* client.pages.create returns to insertEntry
CreateReturns(t) ==
    LET c == calls[t]
    IN  /\ c.pc = "create"
        /\ \E result \in CreateResponses(c.id) :
              IF ~isFullPage(result)
              THEN Reject(t, c, Fail("Not a full page"))
              ELSE LET r == processRow(result, dbSchemas[c.name])
                       d == [c EXCEPT !.row = r, !.rowOf = result.id]
                   IN  IF r.ok THEN Goto(t, Returned(d, <<r.value>>))
                       ELSE Reject(t, d, r.err)
        /\ UNCHANGED Rest

\* the operation is over and nothing of it is in flight: the caller goes on, and
\* of the last operation that went through the resolver only how it ended is kept
CallerContinues(t) ==
    LET c == calls[t]
        resolving == c.op # "queryPageContentById"
    IN  /\ c.pc = "end"
        /\ c.out \in {"ok", "err"}
        /\ c.cpc # "content"
        /\ calls' = [calls EXCEPT ![t] =
                        [Idle EXCEPT !.afterFail = IF resolving
                                                   THEN c.out = "err" /\ c.late
                                                   ELSE c.afterFail,
                                     !.afterThrow = IF resolving
                                                    THEN c.out = "err" /\ c.inside
                                                    ELSE c.afterThrow]]
        /\ UNCHANGED databaseIdMap
        /\ UNCHANGED Rest

Next ==
    \/ Construct
    \/ ContainerChanges
    \/ \E t \in Tasks :
          \/ Start(t)
          \/ ListFails(t)
          \/ ListReturns(t)
          \/ Lookup(t)
          \/ StoreCallFails(t)
          \/ QueryReturns(t)
          \/ BlocksReturn(t)
          \/ RetrieveReturns(t)
          \/ ContentFails(t)
          \/ ContentReturns(t)
          \/ AssertReturns(t)
          \/ WriteFails(t)
          \/ TrashReturns(t)
          \/ UpdateReturns(t)
          \/ CreateReturns(t)
          \/ CallerContinues(t)

Spec == Init /\ [][Next]_vars

(***************************************************************************)
(* The field codecs at work: a domain value is composed and the result     *)
(* handled (the round trip), or a wire value is handled.                   *)
(***************************************************************************)
SeqsUpTo(S, n) == UNION {[1..k -> S] : k \in 0..n}

Names == {Str("a"), Str("b"), Str("c")}
\* the allow-lists: stringEnum('a', 'b'), stringEnum('a', undefined)
Allowed == <<Str("a"), Str("b")>>
AllowedOptional == <<Str("a"), Undefined>>
Dates == {Str("2024-01-01"), Str("2024-01-02")}
RelationIds == {Str("p1"), Str("p2")}
Texts == {Str(""), Str("a"), Str("ab")}
\* the text spans of a page the store returns
Spans == {Obj([plain_text |-> s, text |-> Obj([content |-> s])]) : s \in {Str("a"), Str("b")}}
Options == {Obj([name |-> n]) : n \in Names}
RawValues == {Null, Undefined, Num(0), Num(5), Bool(FALSE), Bool(TRUE), Str(""), Str("a")}
Defaults == {Num(0), Str("x")}
\* the files of a page: one the store hosts ('s:/u1?k=v', the query signs it), one
\* linked from elsewhere ('x:/u2'), and a descriptor that has neither URL
FileDescriptor(sort) ==
    IF sort = "file"
    THEN Obj([file |-> Obj([url |-> Str(<<"s", ":", "/", "u", "1", "?", "k", "=", "v">>)])])
    ELSE IF sort = "external"
    THEN Obj([external |-> Obj([url |-> Str(<<"x", ":", "/", "u", "2">>)])])
    ELSE Obj([name |-> Str(<<"n">>)])
\* relation().objects({rid: __id(), st: {rollupField: 'r', def: status().string()}})
ObjectsMapping ==
    << [key |-> "rid", rollupField |-> None, def |-> [type |-> "__id", kind |-> "raw"]],
       [key |-> "st", rollupField |-> "r",
        def |-> [type |-> "status", kind |-> "statusString"]] >>

Encoding(kind, arg, x) ==
    [NoCodec EXCEPT !.kind = kind, !.arg = arg, !.dir = "encode", !.stage = "input", !.x = x]
Decoding(kind, arg, wire) ==
    [NoCodec EXCEPT !.kind = kind, !.arg = arg, !.dir = "decode", !.stage = "wire",
                    !.wire = wire]

CodecInit ==
    /\ options = [notionToken |-> FALSE, notionClient |-> FALSE,
                  dbMap |-> FALSE, dbPageId |-> FALSE]
    /\ built = "no"
    /\ client = None
    /\ mode = None
    /\ dbMap = EmptyMap
    /\ databaseIdMap = EmptyMap
    /\ container = {}
    /\ everListed = FALSE
    /\ calls = [t \in Tasks |-> Idle]
    /\ \/ \E x \in Names \cup {Undefined, Str("")} :
             codec = Encoding("optionalString", Undefined, x)
       \/ \E w \in Options \cup {Null} : \E k \in {"optionalString", "statusString"} :
             codec = Decoding(k, Undefined, w)
       \* the files of the page whose id is 'p1'
       \/ \E w \in SeqsUpTo({FileDescriptor(f) : f \in {"file", "external", "name"}}, MaxItems)
                     \cup {<<FileDescriptor("file"), FileDescriptor("external"),
                              FileDescriptor("name")>>} :
          \E k \in {"urls", "singleUrl", "notionImageUrls", "singleNotionImageUrl"} :
             codec = Decoding(k, Str(<<"p", "1">>), w)
       \/ \E w \in SeqsUpTo({Obj([id |-> r]) : r \in RelationIds}, MaxItems) :
             \/ \E k \in {"ids", "singleId"} : codec = Decoding(k, Undefined, w)
             \* a relation, a mapping (the second has a definition that is neither a
             \* rollup item nor __id()) and the field 'r' of the page: a rollup of array
             \* shape, a rollup of another shape, another property, or none
             \/ \E mapping \in {ObjectsMapping,
                                 <<[key |-> "rid", rollupField |-> None,
                                    def |-> [type |-> "number", kind |-> "raw"]]>>} :
                LET number == Obj([type |-> Str("number"), number |-> Num(5)])
                    status(n) == Obj([type |-> Str("status"), status |-> Obj([name |-> n])])
                    rollup(r) == Obj([type |-> Str("rollup"), rollup |-> r])
                    decoding(properties) ==
                        Decoding("objects", [mapping |-> mapping, properties |-> properties], w)
                IN  \/ \E array \in SeqsUpTo({status(Str("a")), status(Str("b")), number},
                                              MaxItems) :
                          codec = decoding(Obj([r |-> rollup(Obj([type |-> Str("array"),
                                                                  array |-> array]))]))
                    \/ codec = decoding(Obj([r |-> rollup(number)]))
                    \/ codec = decoding(Obj([r |-> number]))
                    \/ codec = decoding(Obj([n |-> number]))
       \/ \E s \in Dates : \E e \in Dates \cup {Null} : \E k \in {"startDate", "dateRange"} :
             codec = Decoding(k, Undefined, Obj([start |-> s, end |-> e]))
       \/ \E k \in {"startDate", "dateRange"} : codec = Decoding(k, Undefined, Null)
       \/ \E x \in SeqsUpTo(Names, MaxItems) :
             \/ codec = Encoding("strings", Undefined, x)
             \/ codec = Encoding("stringEnums", Allowed, x)
       \/ \E x \in SeqsUpTo(RelationIds, MaxItems) : codec = Encoding("ids", Undefined, x)
       \/ \E x \in RelationIds : codec = Encoding("singleId", Undefined, x)
       \/ \E s, e \in Dates :
             codec = Encoding("dateRange", Undefined, Obj([start |-> s, end |-> e]))
       \/ \E x \in Dates \cup {Str("")} : codec = Encoding("startDate", Undefined, x)
       \/ \E x \in Names \cup {Str("")} : codec = Encoding("statusString", Undefined, x)
       \/ \E x \in Names \cup {Undefined} : \E a \in {Allowed, AllowedOptional} :
             codec = Encoding("stringEnum", a, x)
       \/ \E x \in Texts : \E k \in {"richTextPlain", "titlePlain"} :
             codec = Encoding(k, Undefined, x)
       \/ \E x \in RawValues : codec = Encoding("mutableRawWithDefault", Num(0), x)
       \/ \E w \in SeqsUpTo(Options, MaxItems) : codec = Decoding("stringEnums", Allowed, w)
       \/ \E w \in Options \cup {Null} : \E a \in {Allowed, AllowedOptional} :
             codec = Decoding("stringEnum", a, w)
       \/ \E w \in SeqsUpTo(Spans, MaxItems) : \E k \in {"richTextPlain", "titlePlain"} :
             codec = Decoding(k, Undefined, w)
       \/ \E w \in RawValues : \E d \in Defaults :
          \E k \in {"rawWithDefault", "mutableRawWithDefault"} :
             codec = Decoding(k, d, w)

ClientVars ==
    <<options, built, client, mode, dbMap, databaseIdMap, container, everListed, calls>>

\* def.composer(value), as createMutateData calls it
ComposeStep ==
    /\ codec.stage = "input"
    /\ LET r == ComposeAs(codec.kind, codec.arg, codec.x)
       IN  codec' = IF r.ok THEN [codec EXCEPT !.stage = "composed", !.wire = r.value]
                    ELSE [codec EXCEPT !.stage = "composeThrew", !.msg = r.msg]
    /\ UNCHANGED ClientVars

\* def.handler(value, ...), as processRow calls it
HandleStep ==
    /\ codec.stage \in {"composed", "wire"}
    /\ LET r == HandleAs(codec.kind, codec.arg, codec.wire)
       IN  codec' = IF r.ok THEN [codec EXCEPT !.stage = "handled", !.out = r.value]
                    ELSE [codec EXCEPT !.stage = "handleThrew", !.msg = r.msg]
    /\ UNCHANGED ClientVars

CodecNext == ComposeStep \/ HandleStep

CodecSpec == CodecInit /\ [][CodecNext]_vars

(***************************************************************************)
(* Two callers at once: each operation runs up to its next await, and the  *)
(* other caller's operation may run in between.  The client is in          *)
(* discovery mode, the container does not change, and the callers query.   *)
(***************************************************************************)
Racers == {1, 2}

RaceInit ==
    /\ codec = NoCodec
    /\ options = [notionToken |-> FALSE, notionClient |-> TRUE,
                  dbMap |-> FALSE, dbPageId |-> TRUE]
    /\ built = "no"
    /\ client = None
    /\ mode = None
    /\ dbMap = EmptyMap
    /\ databaseIdMap = EmptyMap
    /\ container = {1, 2, 4}
    /\ everListed = FALSE
    /\ calls = [t \in Racers |-> Idle]

RaceNext ==
    \/ Construct
    \/ \E t \in Racers :
          \/ /\ Start(t)
             \* client.query(name), of 'a', 'b' and 'b_x'
             /\ calls'[t].op = "query"
             /\ calls'[t].name \in {NameA, NameB, NameBx}
             /\ calls'[t].params = EmptyMap
             /\ calls'[t].limit = Undefined
          \/ ListFails(t)
          \/ ListReturns(t)
          \/ Lookup(t)
          \/ StoreCallFails(t)
          \/ QueryReturns(t)
          \/ CallerContinues(t)

RaceSpec == RaceInit /\ [][RaceNext]_vars

(***************************************************************************)
(* The properties.                                                         *)
(***************************************************************************)
\* the base of each logical name, written out: the text before the first "__"
ExpectedBase ==
    [name \in DBNames |-> IF name \in {NameAView, NameATimes} THEN NameA ELSE name]

Discovery == built = "ok" /\ mode = "discovery"
Static == built = "ok" /\ mode = "static"

\* the call is an operation that goes through the resolver
Named(c) == c.op \in Ops \ {"queryPageContentById"}

\* C1: in discovery mode an operation on a name the cache lacks issues exactly one
\* listing, an operation on a cached name issues none, after an operation failed
\* following resolution the cache is empty, and the next operation issues exactly
\* one listing.
C1_ListingsAndSelfHeal ==
    Discovery =>
        \A t \in Tasks :
            LET c == calls[t]
            IN  Named(c) =>
                    /\ ~c.had => c.listings = 1
                    /\ c.had => c.listings = 0
                    /\ (c.out = "err" /\ c.late) => databaseIdMap = EmptyMap
                    /\ c.afterFail => c.listings = 1

\* the operations C2 lists
C2Ops == {"query", "queryFirst", "queryOneById", "queryKV", "queryText",
          "insertEntry", "updateEntry", "deleteEntry"}

\* C2: in discovery mode, when one of the listed operations fails at any step after
\* it got a resolved id, the cache is empty when the error reaches the caller.
C2_FailureEmptiesCache ==
    Discovery =>
        \A t \in Tasks :
            LET c == calls[t]
            IN  (c.op \in C2Ops /\ c.out = "err" /\ c.late) => databaseIdMap = EmptyMap

\* C3, as claimed: in discovery mode a failure downstream of the resolver is retried
\* once within the call, so the caller sees the error only after a second listing
\* and a second lookup; in static mode nothing is retried.
C3_RetriesOnceInCall ==
    \A t \in Tasks :
        LET c == calls[t]
        IN  /\ (Discovery /\ c.out = "err" /\ c.inside) => (c.listings = 2 /\ c.lookups = 2)
            /\ Static => (c.listings = 0 /\ c.lookups <= 1)

\* C3, amended: in discovery mode an error thrown inside the resolver (by resolution
\* or by the callback) empties the cache and reaches the caller with no retry: no
\* call issues more than one listing or makes more than one lookup, and it is the
\* caller's next resolving operation that finds the name missing and lists once;
\* in static mode nothing is listed or retried.
C3_ClearsAndRethrows ==
    \A t \in Tasks :
        LET c == calls[t]
        IN  /\ Discovery =>
                /\ c.listings <= 1 /\ c.lookups <= 1
                /\ (c.out = "err" /\ c.inside) => databaseIdMap = EmptyMap
                /\ (Named(c) /\ c.afterThrow) => (~c.had /\ c.listings = 1)
            /\ Static => (c.listings = 0 /\ c.lookups <= 1)

\* a call failed inside the resolver's callback after one listing and one lookup
C3_Witness ==
    \E t \in Tasks :
        /\ Discovery
        /\ calls[t].out = "err" /\ calls[t].inside /\ calls[t].id # None
        /\ calls[t].listings = 1 /\ calls[t].lookups = 1

\* C4: after every listing the cache holds exactly the pairs of that listing.
C4_RebuiltFromScratch ==
    \A t \in Tasks : calls[t].pc = "lookup" => databaseIdMap = calls[t].listed

\* C5: with a static table given, whatever operations ran, the table is as it was
\* given and no listing of a container was ever issued; an operation on a name whose
\* base the table lacks has failed with 'Database not found' when it returns from
\* its first step, its callback not invoked and no request of it sent.
C5_StaticTableFrozen ==
    (built = "ok" /\ options.dbMap) =>
        /\ dbMap = StaticTable
        /\ databaseIdMap = EmptyMap
        /\ ~everListed
        /\ \A t \in Tasks :
              LET c == calls[t]
              IN  /\ c.listings = 0 /\ c.pc \notin {"list", "lookup"}
                  /\ (Named(c) /\ ExpectedBase[c.name] \notin DOMAIN StaticTable) =>
                        /\ c.pc = "end" /\ c.out = "err"
                        /\ c.err.msg = "Database not found"
                        /\ c.id = None /\ c.target = None /\ c.fetched = None
                        /\ c.writes = <<>>
                  /\ (Named(c) /\ ExpectedBase[c.name] \in DOMAIN StaticTable) =>
                        c.id = StaticTable[ExpectedBase[c.name]]

\* static mode, after an earlier operation: an operation on an absent base failed
C5_Witness ==
    \E t \in Tasks :
        /\ built = "ok" /\ options.dbMap /\ options.dbPageId
        /\ calls[t].op = "deleteEntry" /\ calls[t].name = NameBx
        /\ calls[t].out = "err" /\ calls[t].afterFail

\* the ids of the child collections titled prefix + base
IdsTitled(base) ==
    {ChildUniverse[i].id : i \in {j \in DOMAIN ChildUniverse :
        /\ ChildUniverse[j].type = "child_database"
        /\ ChildUniverse[j].title = DEFAULT_DB_PREFIX \o base}}

SchemaKeys(schema) == {schema[i].key : i \in DOMAIN schema}

\* C6: the resolver is asked for the base of the logical name (the text before the
\* first "__") and the record is decoded with the schema of the full name: the id
\* an operation gets is the base's, the cache is keyed by bases alone, a view finds
\* the entry its base's listing made, and the decoded record has the fields of the
\* full name's schema.
C6_BaseResolvesFullNameDecodes ==
    \A t \in Tasks :
        LET c == calls[t]
        IN  Named(c) =>
                /\ c.key = ExpectedBase[c.name]
                /\ DOMAIN databaseIdMap \subseteq {ExpectedBase[n] : n \in DBNames}
                /\ (Static /\ c.id # None) => c.id = StaticTable[ExpectedBase[c.name]]
                /\ (Discovery /\ c.id # None) => c.id \in IdsTitled(ExpectedBase[c.name])
                /\ (Discovery /\ c.had) => c.listings = 0
                /\ (c.rowOf # None /\ c.row.ok) =>
                        DOMAIN c.row.value = SchemaKeys(dbSchemas[c.name])

\* a view was resolved from the cache entry of its base and decoded with its own schema
C6_Witness ==
    \E t \in Tasks :
        /\ Discovery
        /\ calls[t].name = NameAView /\ calls[t].had /\ calls[t].id = "d1"
        /\ calls[t].out = "ok" /\ calls[t].rowOf = "p1"
        /\ DOMAIN calls[t].row.value = {"n"}

\* C7: updateEntry and deleteEntry send their page update only after the membership
\* check went through (the page was fetched, is full, and its parent is the
\* collection with the resolved id); a partial page or a foreign page makes them
\* fail with 'Not a full page' / 'Page not found in database' and nothing is sent.
C7_WriteOnlyAfterMembership ==
    \A t \in Tasks :
        LET c == calls[t]
        IN  c.op \in AssertOps =>
                /\ (c.writes # <<>> \/ c.pc \in {"update", "trash"}) =>
                        /\ c.checked /\ c.fetched = c.page
                        /\ PageOf(c.page).full
                        /\ PageOf(c.page).parentType = "database_id"
                        /\ PageOf(c.page).parentId = c.id
                        /\ Len(c.writes) = 1 /\ c.writes[1].page = c.page
                /\ (c.fetched # None /\ ~PageOf(c.page).full) =>
                        /\ c.out = "err" /\ c.err.msg = "Not a full page"
                        /\ c.writes = <<>>
                /\ (c.fetched # None /\ PageOf(c.page).full
                        /\ ~(PageOf(c.page).parentType = "database_id"
                             /\ PageOf(c.page).parentId = c.id)) =>
                        /\ c.out = "err" /\ c.err.msg = "Page not found in database"
                        /\ c.writes = <<>>

\* an update was refused for a page of another collection, after one that was sent
C7_Witness ==
    \E t \in Tasks :
        /\ calls[t].op = "updateEntry" /\ calls[t].page = "p2" /\ calls[t].id = "d1"
        /\ calls[t].err.msg = "Page not found in database"

\* C8: queryOneById gives a decoded record only for a full page whose parent is the
\* collection with the resolved id, and fails with 'Page not found in database' for
\* a full page of another parent; queryOneWithContentById has the content fetch in
\* flight from its start, beside the record fetch, succeeds only when both are
\* back, and carries content only then: never the content of a foreign page.
C8_MembershipBeforeResult ==
    \A t \in Tasks :
        LET c == calls[t]
            page == PageOf(c.page)
            member == page.parentType = "database_id" /\ page.parentId = c.id
        IN  c.op \in RetrieveOps =>
                /\ c.out = "ok" =>
                        /\ page.full /\ member /\ c.fetched = c.page
                        /\ c.row.ok /\ c.rowOf = c.page /\ c.result = <<c.row.value>>
                /\ (c.fetched # None /\ page.full /\ ~member) =>
                        /\ c.pc = "end" /\ c.out = "err" /\ ~c.content
                        /\ c.op = "queryOneById" => c.err.msg = "Page not found in database"
                /\ c.op = "queryOneById" => (c.cpc = None /\ ~c.content)
                /\ c.op = "queryOneWithContentById" =>
                        /\ c.cpc # None
                        /\ c.out = "ok" <=> (c.pc = "end" /\ c.cpc = "got" /\ c.row.ok
                                             /\ c.rowOf = c.page)
                        /\ c.content <=> c.out = "ok"

\* the content of a foreign page came back, and the operation failed on membership
C8_Witness ==
    \E t \in Tasks :
        /\ calls[t].op = "queryOneWithContentById" /\ calls[t].page = "p2"
        /\ calls[t].id = "d1" /\ calls[t].cpc = "got"
        /\ calls[t].out = "err" /\ calls[t].err.msg = "Page not found in database"

ExactlyOne(a, b) == (a /\ ~b) \/ (b /\ ~a)

Missing(page, schema, i) ==
    schema[i].type[1] # "__" /\ schema[i].key \notin DOMAIN page.properties
Mistagged(page, schema, i) ==
    /\ schema[i].type[1] # "__"
    /\ schema[i].key \in DOMAIN page.properties
    /\ page.properties[schema[i].key].type # schema[i].type

\* C10: decoding a record fails at the first schema field, other than a metadata
\* field, that the record lacks ('is not found', naming the field) or holds under
\* another tag ('type mismatch', naming the field, the wire tag and the declared
\* tag), and that field's handler is not invoked; with no such field it succeeds,
\* the metadata fields read from the page itself, which has no wire field for them.
C10_DecodeChecksFieldAndTag ==
    \A t \in Tasks :
        LET c == calls[t]
        IN  c.rowOf # None =>
              LET page == PageOf(c.rowOf)
                  schema == dbSchemas[c.name]
                  r == c.row
                  bad == {i \in DOMAIN schema : Missing(page, schema, i) \/ Mistagged(page, schema, i)}
              IN  /\ r.ok <=> bad = {}
                  /\ r.ok =>
                        /\ r.invoked = [i \in DOMAIN schema |-> schema[i].key]
                        /\ \A i \in DOMAIN schema :
                              IF schema[i].type[1] = "__"
                              THEN /\ schema[i].key \notin DOMAIN page.properties
                                   /\ r.value[schema[i].key] = Str(page[schema[i].type[2]])
                              ELSE r.value[schema[i].key] = page.properties[schema[i].key].val
                  /\ ~r.ok =>
                        LET i == CHOOSE i \in bad : \A j \in bad : i <= j
                            key == schema[i].key
                        IN  /\ r.invoked = [j \in 1..(i - 1) |-> schema[j].key]
                            /\ r.err.name = key
                            /\ Missing(page, schema, i) =>
                                    r.err.msg = "Property is not found"
                            /\ Mistagged(page, schema, i) =>
                                    /\ r.err.msg = "Property type mismatch"
                                    /\ r.err.actual = page.properties[key].type
                                    /\ r.err.declared = schema[i].type
                            /\ c.out = "err"
                            /\ c.op # "queryOneWithContentById" => c.err = r.err

\* a number field came under the rich_text tag, after the metadata field was read
C10_Witness ==
    \E t \in Tasks :
        /\ calls[t].rowOf = "p2" /\ calls[t].name = NameB
        /\ calls[t].row.err.msg = "Property type mismatch"
        /\ calls[t].row.err.actual = RichTextType
        /\ calls[t].row.err.declared = NumberType
        /\ calls[t].row.invoked = <<"_id">>
\* the record a page decodes to under a schema of raw fields, written out
ExpectedRecord(page, schema) ==
    [k \in SchemaKeys(schema) |->
        LET def == schema[CHOOSE i \in DOMAIN schema : schema[i].key = k]
        IN  IF def.type[1] = "__" THEN Str(page[def.type[2]])
            ELSE page.properties[k].val]

\* the page cannot be decoded under the schema
Undecodable(page, schema) ==
    \E i \in DOMAIN schema : Missing(page, schema, i) \/ Mistagged(page, schema, i)

\* C11: query returns one decoded record for every record the store returned, in
\* the store's order, or fails and returns no list at all: with a stub among the
\* results it fails with 'Not all results are full page' and nothing was decoded;
\* otherwise the first record that does not decode makes the whole query fail with
\* that record's error.
C11_QueryAllOrNothing ==
    \A t \in Tasks :
        LET c == calls[t]
            schema == dbSchemas[c.name]
            pages == [i \in DOMAIN c.returned |-> PageOf(c.returned[i])]
            stub == \E i \in DOMAIN pages : ~pages[i].full
            bad == {i \in DOMAIN pages : Undecodable(pages[i], schema)}
        IN  c.op = "query" =>
                /\ c.out = "ok" =>
                      /\ ~stub /\ bad = {}
                      /\ c.result = [i \in DOMAIN pages |-> ExpectedRecord(pages[i], schema)]
                /\ c.out # "ok" => c.result = <<>>
                /\ stub =>
                      /\ c.out = "err" /\ c.err.msg = "Not all results are full page"
                      /\ c.rowOf = None /\ c.row = NoRow
                /\ (~stub /\ bad # {}) =>
                      /\ c.out = "err" /\ c.err = c.row.err
                      /\ c.rowOf = c.returned[CHOOSE i \in bad : \A j \in bad : i <= j]
                      /\ c.err.msg \in {"Property is not found", "Property type mismatch"}

\* the first record was decoded, the second was not, and the query gave no list
C11_Witness ==
    \E t \in Tasks :
        /\ calls[t].op = "query" /\ calls[t].name = NameAView
        /\ calls[t].returned = <<"p1", "p5">>
        /\ calls[t].out = "err" /\ calls[t].rowOf = "p5" /\ calls[t].result = <<>>

\* the operation has built the parameters of its write (createMutateData has run)
Encoded(c) ==
    \/ c.op = "insertEntry" /\ c.id # None
    \/ c.op = "updateEntry" /\ c.checked

PatchKeys(data) == {data[i][1] : i \in DOMAIN data}
PatchValue(data, k) == data[CHOOSE i \in DOMAIN data : data[i][1] = k][2]
Declared(schema, k) == schema[CHOOSE i \in DOMAIN schema : schema[i].key = k]

\* the supplied keys the schema declares without composer
NoComposerKeys(data, schema) ==
    {k \in PatchKeys(data) \cap SchemaKeys(schema) : Declared(schema, k).composer = None}

\* the supplied keys whose value the field's composer refuses: a name outside the
\* allow-list of a stringEnum
RefusedKeys(data, schema) ==
    {k \in PatchKeys(data) \cap SchemaKeys(schema) :
        /\ Declared(schema, k).composer = "stringEnum"
        /\ PatchValue(data, k) \notin
              {Declared(schema, k).values[i] : i \in DOMAIN Declared(schema, k).values}}

\* C12, as claimed: the field patch of a write has exactly the supplied keys, each
\* with the composed value (the composers accepting the values they are given); a
\* supplied key of a field without composer makes the encode fail with the
\* no-composer error, and no patch is sent.
C12_PatchHasSuppliedKeys ==
    \A t \in Tasks :
        LET c == calls[t]
            schema == dbSchemas[c.name]
        IN  (Encoded(c) /\ PatchKeys(c.data) \subseteq SchemaKeys(schema)
                /\ RefusedKeys(c.data, schema) = {}) =>
                IF NoComposerKeys(c.data, schema) # {}
                THEN /\ c.writes = <<>> /\ c.out = "err"
                     /\ c.err.msg = "Cannot mutate property: it has no composer"
                ELSE /\ Len(c.writes) = 1
                     /\ DOMAIN c.writes[1].properties = PatchKeys(c.data)
                     /\ \A k \in PatchKeys(c.data) :
                           c.writes[1].properties[k] = PatchValue(c.data, k)

\* C12, amended: the field patch has exactly the supplied keys that name ordinary
\* fields, each with the composed value (the composers accepting the values they
\* are given), and no other schema field; a supplied key
\* that names a mutable metadata field is written beside the field patch, under
\* the metadata key; a supplied key of a field without composer makes the encode
\* fail with the no-composer error naming that field, and no patch is sent.
C12_PatchSplitsFieldsAndMetadata ==
    \A t \in Tasks :
        LET c == calls[t]
            schema == dbSchemas[c.name]
            keys == PatchKeys(c.data)
            ordinary == {k \in keys : Declared(schema, k).type[1] # "__"}
        IN  (Encoded(c) /\ keys \subseteq SchemaKeys(schema)
                /\ RefusedKeys(c.data, schema) = {}) =>
                IF NoComposerKeys(c.data, schema) # {}
                THEN /\ c.writes = <<>> /\ c.out = "err"
                     /\ c.err.msg = "Cannot mutate property: it has no composer"
                     /\ c.err.name \in NoComposerKeys(c.data, schema)
                ELSE /\ Len(c.writes) = 1
                     /\ DOMAIN c.writes[1].properties = ordinary
                     /\ \A k \in ordinary :
                           c.writes[1].properties[k] = PatchValue(c.data, k)
                     /\ DOMAIN c.writes[1].meta =
                           {Declared(schema, k).type[2] : k \in keys \ ordinary}
                     /\ \A k \in keys \ ordinary :
                           c.writes[1].meta[Declared(schema, k).type[2]] = PatchValue(c.data, k)

\* one field of three was patched; and a formula field was refused
C12_Witness ==
    \E t \in Tasks :
        /\ calls[t].op = "updateEntry" /\ calls[t].name = NameA /\ calls[t].checked
        /\ calls[t].data = << <<"n", Num(3)>> >>
        /\ DOMAIN calls[t].writes[1].properties = {"n"}
        /\ calls[t].afterFail

\* C13: a write whose patch has a key the schema does not declare fails with an
\* error (at that key, when no earlier key failed), and no request is sent: the
\* key is neither dropped nor written.
C13_UnknownKeyFails ==
    \A t \in Tasks :
        LET c == calls[t]
            schema == dbSchemas[c.name]
            unknown == {i \in DOMAIN c.data : c.data[i][1] \notin SchemaKeys(schema)}
        IN  (Encoded(c) /\ unknown # {}) =>
                /\ c.pc = "end" /\ c.out = "err"
                /\ c.writes = <<>>
                /\ c.result = <<>>
                /\ (NoComposerKeys(c.data, schema) = {}) =>
                      /\ c.err.msg = "TypeError"
                      /\ c.err.name = c.data[CHOOSE i \in unknown : \A j \in unknown : i <= j][1]

\* an insert whose patch has a declared key and then an undeclared one has failed
C13_Witness ==
    \E t \in Tasks :
        /\ calls[t].op = "insertEntry" /\ calls[t].id = "d1"
        /\ calls[t].data = << <<"n", Num(3)>>, <<"q", Num(1)>> >>
        /\ calls[t].out = "err" /\ calls[t].err.name = "q"

\* C14: query with a limit L >= 0 makes one request with page size L and returns at
\* most L records; only without a limit does it paginate to the end; queryFirst is
\* query with limit 1 and returns the first decoded record, or none.
C14_LimitBoundsQuery ==
    \A t \in Tasks :
        LET c == calls[t]
        IN  (c.op \in {"query", "queryFirst"} /\ c.sent # EmptyMap) =>
                /\ c.limit # Undefined =>
                      /\ ~c.paged
                      /\ "page_size" \in DOMAIN c.sent /\ c.sent["page_size"] = c.limit.v
                      /\ Len(c.returned) <= c.limit.v /\ Len(c.result) <= c.limit.v
                /\ c.limit = Undefined => (c.paged /\ "page_size" \notin DOMAIN c.sent)
                /\ c.op = "queryFirst" =>
                      /\ c.limit = Num(1)
                      /\ c.out = "ok" =>
                            c.result = IF c.returned = <<>> THEN <<>>
                                       ELSE <<ExpectedRecord(PageOf(c.returned[1]),
                                                             dbSchemas[c.name])>>

\* the id the resolver has for a logical name: the static table's, or a listed child's
ResolvedIds(name) ==
    IF mode = "static" THEN {StaticTable[ExpectedBase[name]]}
    ELSE IdsTitled(ExpectedBase[name])

\* C15: the store's query call of every querying operation has the resolved id as
\* its database_id, whatever database_id the caller's parameters hold, the pages it
\* returns are that collection's, and query and queryFirst pass on the caller's
\* filter and sorts as they are.
C15_QueryTargetsResolvedId ==
    \A t \in Tasks :
        LET c == calls[t]
        IN  (c.op \in QueryOps /\ c.sent # EmptyMap) =>
                /\ c.id \in ResolvedIds(c.name)
                /\ c.sent["database_id"] = c.id
                /\ c.target = c.id
                /\ \A i \in DOMAIN c.returned :
                      /\ PageOf(c.returned[i]).parentType = "database_id"
                      /\ PageOf(c.returned[i]).parentId = c.id
                /\ c.op \in {"query", "queryFirst"} =>
                      \A k \in {"filter", "sorts"} :
                          IF k \in DOMAIN c.params
                          THEN k \in DOMAIN c.sent /\ c.sent[k] = c.params[k]
                          ELSE k \notin DOMAIN c.sent

\* a query whose parameters name another collection got the resolved one's records
C15_Witness ==
    \E t \in Tasks :
        /\ calls[t].op = "query" /\ calls[t].name = NameA
        /\ "database_id" \in DOMAIN calls[t].params
        /\ calls[t].params["database_id"] = "d2"
        /\ calls[t].sent # EmptyMap
        /\ calls[t].sent["database_id"] = "d1" /\ calls[t].sent["filter"] = "f1"
        /\ calls[t].returned = <<"p1">> /\ calls[t].out = "ok"

\* C16: insertEntry sends at most one create request, none when the encode fails;
\* its parent is the id resolved for the name and its properties are the encoded
\* patch; on success exactly one was sent and the result is the decoded response,
\* whose identifier field, where the schema has one, is the created page's id.
C16_InsertCreatesUnderResolvedId ==
    \A t \in Tasks :
        LET c == calls[t]
            schema == dbSchemas[c.name]
            m == createMutateData(c.data, schema)
        IN  c.op = "insertEntry" =>
                /\ Len(c.writes) <= 1
                /\ (c.id # None /\ ~m.ok) => c.writes = <<>>
                /\ c.pc = "create" => Len(c.writes) = 1
                /\ c.writes # <<>> =>
                      /\ c.writes[1].kind = "create"
                      /\ c.id \in ResolvedIds(c.name)
                      /\ c.writes[1].parent = c.id
                      /\ c.writes[1].properties =
                            [k \in {k \in PatchKeys(c.data) : Declared(schema, k).type[1] # "__"}
                                |-> PatchValue(c.data, k)]
                /\ c.out = "ok" =>
                      /\ Len(c.writes) = 1
                      /\ c.rowOf \in {p.id : p \in PagesIn(c.id)}
                      /\ c.result = <<ExpectedRecord(PageOf(c.rowOf), schema)>>
                      /\ "_id" \in SchemaKeys(schema) => c.result[1]["_id"] = Str(c.rowOf)

\* an insert into a was created under d1 and returned the created page's id
C16_Witness ==
    \E t \in Tasks :
        /\ calls[t].op = "insertEntry" /\ calls[t].name = NameA
        /\ calls[t].data = << <<"n", Num(3)>> >>
        /\ calls[t].writes # <<>>
        /\ calls[t].writes[1].parent = "d1"
        /\ calls[t].writes[1].properties = [k \in {"n"} |-> Num(3)]
        /\ calls[t].out = "ok"
        /\ calls[t].result[1]["_id"] = Str("p1")

\* the names of an allow-list
Listed(values) == {values[i] : i \in DOMAIN values}

\* the codecs of C17, and their in-range inputs: names of the allow-list where
\* there is one
RoundTripKinds ==
    {"strings", "stringEnums", "dateRange", "startDate", "ids", "singleId", "statusString"}
InRange ==
    codec.kind = "stringEnums" => \A i \in DOMAIN codec.x : codec.x[i] \in Listed(codec.arg)

\* C17: under strings, stringEnums, dateRange, startDate, ids, singleId and the
\* status string codec, composing an in-range value and handling the result does
\* not throw and gives the value back.
C17_ListDateReferenceRoundTrip ==
    (codec.dir = "encode" /\ codec.kind \in RoundTripKinds /\ InRange) =>
        /\ codec.stage \notin {"composeThrew", "handleThrew"}
        /\ codec.stage = "handled" => codec.out = codec.x

\* a date range with both bounds went through compose and handle
C17_Witness ==
    /\ codec.kind = "dateRange" /\ codec.stage = "handled"
    /\ codec.x = Obj([start |-> Str("2024-01-01"), end |-> Str("2024-01-02")])
    /\ codec.out = codec.x

PlainKinds == {"richTextPlain", "titlePlain"}

\* the texts of the spans, one after the other
SpanTexts(spans) ==
    IF Len(spans) = 0 THEN ""
    ELSE IF Len(spans) = 1 THEN spans[1].v.plain_text.v
    ELSE IF Len(spans) = 2 THEN spans[1].v.plain_text.v \o spans[2].v.plain_text.v
    ELSE spans[1].v.plain_text.v \o spans[2].v.plain_text.v \o spans[3].v.plain_text.v

\* C18: under plainText, compose gives one span that carries the string, handle
\* gives the texts of the spans in order with nothing between them, and handling
\* what compose gave gives the string back.
C18_PlainTextRoundTrip ==
    codec.kind \in PlainKinds =>
        /\ (codec.dir = "encode" /\ codec.stage \in {"composed", "handled"}) =>
              /\ Len(codec.wire) = 1
              /\ codec.wire[1].v.text.v.content = codec.x
        /\ (codec.dir = "decode" /\ codec.stage # "wire") =>
              /\ codec.stage = "handled"
              /\ codec.out = Str(SpanTexts(codec.wire))
        /\ (codec.dir = "encode" /\ codec.stage # "input") =>
              (codec.stage \in {"composed", "handled"}
                /\ (codec.stage = "handled" => codec.out = codec.x))

\* C19: stringEnum and stringEnums succeed, on decode and on encode, exactly when
\* every name is in the allow-list, and then give the names as they are; with a
\* name outside the list they throw 'Invalid status' and give no value.  The name
\* of an absent selection is undefined, and is looked up in the list like any name.
C19_EnumValidation ==
    /\ (codec.kind = "stringEnums" /\ codec.dir = "encode" /\ codec.stage # "input") =>
          IF \A i \in DOMAIN codec.x : codec.x[i] \in Listed(codec.arg)
          THEN /\ codec.stage \in {"composed", "handled"}
               /\ codec.wire = [i \in DOMAIN codec.x |-> Obj([name |-> codec.x[i]])]
               /\ codec.stage = "handled" => codec.out = codec.x
          ELSE /\ codec.stage = "composeThrew" /\ codec.msg = "Invalid status"
               /\ codec.wire = Undefined /\ codec.out = Undefined
    /\ (codec.kind = "stringEnums" /\ codec.dir = "decode" /\ codec.stage # "wire") =>
          IF \A i \in DOMAIN codec.wire : codec.wire[i].v.name \in Listed(codec.arg)
          THEN /\ codec.stage = "handled"
               /\ codec.out = [i \in DOMAIN codec.wire |-> codec.wire[i].v.name]
          ELSE /\ codec.stage = "handleThrew" /\ codec.msg = "Invalid status"
               /\ codec.out = Undefined
    /\ (codec.kind = "stringEnum" /\ codec.dir = "encode" /\ codec.stage # "input") =>
          IF codec.x \in Listed(codec.arg)
          THEN /\ codec.stage \in {"composed", "handled"}
               /\ codec.wire = IF codec.x = Undefined THEN Null
                               ELSE Obj([name |-> codec.x])
               /\ codec.stage = "handled" => codec.out = codec.x
          ELSE /\ codec.stage = "composeThrew" /\ codec.msg = "Invalid status: "
               /\ codec.wire = Undefined /\ codec.out = Undefined
    /\ (codec.kind = "stringEnum" /\ codec.dir = "decode" /\ codec.stage # "wire") =>
          LET name == IF codec.wire = Null THEN Undefined ELSE codec.wire.v.name
          IN  IF name \in Listed(codec.arg)
              THEN codec.stage = "handled" /\ codec.out = name
              ELSE /\ codec.stage = "handleThrew" /\ codec.msg = "Invalid status: "
                   /\ codec.out = Undefined

\* the option 'c' came from the store under stringEnum('a', 'b'), and decode threw
C19_Witness ==
    /\ codec.kind = "stringEnum" /\ codec.dir = "decode" /\ codec.arg = Allowed
    /\ codec.stage = "handleThrew"
    /\ codec.wire = Obj([name |-> Str("c")])

\* C20: rawWithDefault(d) decodes null and undefined to d and every other payload,
\* the falsy ones 0, false and '' among them, to the payload itself.
C20_DefaultOnlyForNullish ==
    (codec.kind \in {"rawWithDefault", "mutableRawWithDefault"}
        /\ codec.dir = "decode" /\ codec.stage # "wire") =>
            /\ codec.stage = "handled"
            /\ codec.out = IF codec.wire \in {Null, Undefined} THEN codec.arg ELSE codec.wire

\* the payload 0 was decoded under a default that is not 0
C20_Witness ==
    /\ codec.kind = "rawWithDefault" /\ codec.stage = "handled"
    /\ codec.arg = Str("x") /\ codec.wire = Num(0) /\ codec.out = Num(0)

\* a descriptor is hosted by the store, or linked, and then has a URL
Hosted(file) == "file" \in DOMAIN file.v
Linked(file) == ~Hosted(file) /\ "external" \in DOMAIN file.v
UrlOf(file) == IF Hosted(file) THEN file.v.file.v.url ELSE file.v.external.v.url

\* the URLs of the descriptors that have one, in the order of the payload
ExpectedUrls(payload) ==
    LET having == SelectSeq(payload, LAMBDA f : Hosted(f) \/ Linked(f))
    IN  [i \in DOMAIN having |-> UrlOf(having[i])]

\* 'https://www.notion.so/image/s%3A%2Fu1?id=p1&table=block': the hosted file's URL
\* up to its query, percent-encoded, under the image service, with the page's id
RewrittenHostedUrl ==
    Str(<<"h", "t", "t", "p", "s", ":", "/", "/", "w", "w", "w", ".", "n", "o", "t", "i", "o",
          "n", ".", "s", "o", "/", "i", "m", "a", "g", "e", "/",
          "s", "%", "3", "A", "%", "2", "F", "u", "1",
          "?", "i", "d", "=", "p", "1", "&", "t", "a", "b", "l", "e", "=", "b", "l", "o", "c", "k">>)

\* one rewritten URL for every hosted descriptor, in the order of the payload
ExpectedImageUrls(payload) ==
    LET hosted == SelectSeq(payload, Hosted)
    IN  [i \in DOMAIN hosted |-> RewrittenHostedUrl]

\* C21: urls() gives, in the order of the payload, the URL of every descriptor
\* that is hosted or linked and skips the others; notionImageUrls() gives one
\* rewritten URL for every hosted descriptor, in order, and none for a linked one.
C21_FilesUrlsInOrder ==
    /\ (codec.kind = "urls" /\ codec.stage # "wire") =>
          /\ codec.stage = "handled"
          /\ codec.out = ExpectedUrls(codec.wire)
    /\ (codec.kind = "notionImageUrls" /\ codec.stage # "wire") =>
          /\ codec.stage = "handled"
          /\ codec.out = ExpectedImageUrls(codec.wire)
          /\ \A i \in DOMAIN codec.out : codec.out[i] # FileDescriptor("external").v.external.v.url

\* urls() of a hosted file, a linked file and a descriptor without URL gave two URLs
C21_Witness ==
    /\ codec.kind = "urls" /\ codec.stage = "handled"
    /\ codec.wire = <<FileDescriptor("file"), FileDescriptor("external"), FileDescriptor("name")>>
    /\ codec.out = <<FileDescriptor("file").v.file.v.url, FileDescriptor("external").v.external.v.url>>

\* the relation's rollup field, as relation().objects asks for it
RollupOf(properties) == properties.v.r
IsArrayRollup(properties) ==
    /\ "r" \in DOMAIN properties.v
    /\ RollupOf(properties).v.type = Str("rollup")
    /\ RollupOf(properties).v.rollup.v.type = Str("array")
RollupArray(properties) == RollupOf(properties).v.rollup.v.array

\* C27: relation().objects(mapping) gives one object for every related id, in the
\* order of the relation, its identifier key from the related id and its rollup
\* key from the nested handler applied to the element of the rollup array at that
\* position; when, for a related id, the rollup field is missing, is no rollup, is
\* not of array shape, has no element at the position or has one of another type
\* than the nested codec's, the decode fails with an error that names the field.
C27_ObjectsDecode ==
    (codec.kind = "objects" /\ codec.dir = "decode" /\ codec.arg.mapping = ObjectsMapping
        /\ codec.stage # "wire") =>
        LET properties == codec.arg.properties
            mismatch ==
                /\ codec.wire # <<>>
                /\ \/ ~IsArrayRollup(properties)
                   \/ \E i \in DOMAIN codec.wire :
                         \/ i > Len(RollupArray(properties))
                         \/ RollupArray(properties)[i].v.type # Str("status")
        IN  IF mismatch
            THEN /\ codec.stage = "handleThrew"
                 /\ codec.msg \in {"Invalid rollup field: r",
                                   "Property r type mismatch: number !== status"}
            ELSE /\ codec.stage = "handled"
                 /\ codec.out = [i \in DOMAIN codec.wire |->
                        Obj([rid |-> codec.wire[i].v.id,
                             st |-> RollupArray(properties)[i].v.status.v.name])]

\* the errors a handler throws by a validation of its own
ValidationErrors ==
    {"Invalid status", "Invalid status: ", "Invalid rollup field: r",
     "Property r type mismatch: number !== status", "Invalid relation mapping: rid"}

\* C28: the handler of every projection, given a payload the store can return for
\* its tag (an empty relation, an empty list of files, a null select, status or
\* date among them), returns a value or throws a validation error of its own;
\* singleId() of an empty relation does not crash.
C28_HandleTotal ==
    (codec.dir = "decode" /\ codec.stage # "wire") =>
        /\ codec.stage = "handleThrew" => codec.msg \in ValidationErrors
        /\ (codec.kind = "singleId" /\ codec.wire = <<>>) => codec.stage = "handled"

\* C29, as claimed: under optionalString() and under stringEnum(...) of a select,
\* encoding undefined gives the null selection and no error.
C29_UndefinedEncodesNull ==
    (codec.kind \in {"optionalString", "stringEnum"} /\ codec.dir = "encode"
        /\ codec.x = Undefined /\ codec.stage # "input") =>
            /\ codec.stage \in {"composed", "handled"}
            /\ codec.wire = Null

\* C29, amended: encoding undefined gives the null selection under optionalString(),
\* and under stringEnum(...) when undefined is among the allowed values; under a
\* stringEnum whose allowed values do not include undefined it throws the
\* invalid-value error and gives no selection.
C29_UndefinedEncodesNullWhereAllowed ==
    (codec.kind \in {"optionalString", "stringEnum"} /\ codec.dir = "encode"
        /\ codec.x = Undefined /\ codec.stage # "input") =>
            IF codec.kind = "optionalString" \/ Undefined \in Listed(codec.arg)
            THEN /\ codec.stage \in {"composed", "handled"}
                 /\ codec.wire = Null
            ELSE /\ codec.stage = "composeThrew" /\ codec.msg = "Invalid status: "
                 /\ codec.wire = Undefined

\* undefined was encoded under stringEnum('a', undefined), and gave null
C29_Witness ==
    /\ codec.kind = "stringEnum" /\ codec.dir = "encode" /\ codec.arg = AllowedOptional
    /\ codec.x = Undefined /\ codec.stage = "composed" /\ codec.wire = Null

FirstOrEmpty(list) == IF list = <<>> THEN Str(<<>>) ELSE list[1]

\* C30, as claimed: for every payload singleUrl() is the first element of urls()
\* and singleNotionImageUrl() the first element of notionImageUrls(), or the empty
\* string when that list is empty.
C30_SingleIsFirstOfList ==
    /\ (codec.kind = "singleUrl" /\ codec.stage # "wire") =>
          /\ codec.stage = "handled"
          /\ codec.out = FirstOrEmpty(ExpectedUrls(codec.wire))
    /\ (codec.kind = "singleNotionImageUrl" /\ codec.stage # "wire") =>
          /\ codec.stage = "handled"
          /\ codec.out = FirstOrEmpty(ExpectedImageUrls(codec.wire))

\* C30, amended: singleUrl() is the URL of the first descriptor of the payload, and
\* the empty string when the payload is empty or its first descriptor is neither
\* hosted nor linked; singleNotionImageUrl() is the rewritten URL of the first
\* descriptor when that one is hosted, and the empty string otherwise.  So each is
\* the first element of its list projection when the first descriptor is in that
\* list or the list is empty, and the empty string, not the list's first element,
\* when only a later descriptor is in the list.
C30_SingleIsOfFirstDescriptor ==
    /\ (codec.kind = "singleUrl" /\ codec.stage # "wire") =>
          LET first == codec.wire # <<>> /\ (Hosted(codec.wire[1]) \/ Linked(codec.wire[1]))
          IN  /\ codec.stage = "handled"
              /\ codec.out = IF first THEN UrlOf(codec.wire[1]) ELSE Str(<<>>)
              /\ (first \/ ExpectedUrls(codec.wire) = <<>>) =>
                    codec.out = FirstOrEmpty(ExpectedUrls(codec.wire))
              /\ (~first /\ ExpectedUrls(codec.wire) # <<>>) => codec.out = Str(<<>>)
    /\ (codec.kind = "singleNotionImageUrl" /\ codec.stage # "wire") =>
          LET first == codec.wire # <<>> /\ Hosted(codec.wire[1])
          IN  /\ codec.stage = "handled"
              /\ codec.out = IF first THEN RewrittenHostedUrl ELSE Str(<<>>)
              /\ (first \/ ExpectedImageUrls(codec.wire) = <<>>) =>
                    codec.out = FirstOrEmpty(ExpectedImageUrls(codec.wire))
              /\ (~first /\ ExpectedImageUrls(codec.wire) # <<>>) => codec.out = Str(<<>>)

\* a linked file came before a hosted one: the single image URL is empty
C30_Witness ==
    /\ codec.kind = "singleNotionImageUrl" /\ codec.stage = "handled"
    /\ codec.wire = <<FileDescriptor("external"), FileDescriptor("file")>>
    /\ codec.out = Str(<<>>)

\* C22: queryKV decodes every record the store returned for the collection and
\* gives the mapping from each record's decoded key field to its decoded value
\* field; when a record's key field does not decode to a string the operation
\* fails with 'Key is not a string' and no mapping is returned; of the records
\* that decode to one key the mapping has one entry, with the value of the last
\* of them in the store's order.
C22_KeyValueLastWins ==
    \A t \in Tasks :
        LET c == calls[t]
            schema == dbSchemas[c.name]
            pages == [i \in DOMAIN c.returned |-> PageOf(c.returned[i])]
            decodes == /\ \A i \in DOMAIN pages : pages[i].full
                       /\ \A i \in DOMAIN pages : ~Undecodable(pages[i], schema)
            records == [i \in DOMAIN pages |-> ExpectedRecord(pages[i], schema)]
            keyed(i) == c.kv[1] \in DOMAIN records[i] /\ records[i][c.kv[1]].t = "string"
            keys == {records[i][c.kv[1]].v : i \in DOMAIN records}
            last(k) == CHOOSE i \in DOMAIN records :
                          /\ records[i][c.kv[1]].v = k
                          /\ \A j \in DOMAIN records : records[j][c.kv[1]].v = k => j <= i
        IN  (c.op = "queryKV" /\ c.sent # EmptyMap) =>
                /\ c.paged /\ "page_size" \notin DOMAIN c.sent
                /\ c.out # "ok" => c.result = <<>>
                /\ c.out = "ok" =>
                      /\ decodes /\ \A i \in DOMAIN records : keyed(i)
                      /\ c.rowOf = (IF pages = <<>> THEN None ELSE c.returned[Len(pages)])
                      /\ Len(c.result) = 1
                      /\ DOMAIN c.result[1] = keys
                      /\ c.kv[2] \in SchemaKeys(schema) =>
                            \A k \in keys : c.result[1][k] = records[last(k)][c.kv[2]]
                /\ (c.pc = "end" /\ decodes /\ \E i \in DOMAIN records : ~keyed(i)) =>
                      /\ c.out = "err" /\ c.err.msg = "Key is not a string"

\* two records of one creation time: the mapping has the value of the later one
C22_Witness ==
    \E t \in Tasks :
        /\ calls[t].op = "queryKV" /\ calls[t].name = NameATimes /\ calls[t].kv = <<"c", "f">>
        /\ calls[t].returned = <<"p1", "p5">>
        /\ calls[t].out = "ok"
        /\ calls[t].result = <<[k \in {"t1"} |-> Num(3)]>>

\* C25: insertEntry and updateEntry send no create or update request when the
\* encode of the patch fails (a field without composer, a value its composer
\* refuses, a key the schema does not declare): the operation has failed with the
\* encode's error before a request exists, and a request that is in flight or was
\* sent is of a patch that encoded in full.
C25_NoWriteOnFailedEncode ==
    \A t \in Tasks :
        LET c == calls[t]
            schema == dbSchemas[c.name]
            fails == \/ ~(PatchKeys(c.data) \subseteq SchemaKeys(schema))
                     \/ NoComposerKeys(c.data, schema) # {}
                     \/ RefusedKeys(c.data, schema) # {}
        IN  c.op \in DataOps =>
                /\ (Encoded(c) /\ fails) =>
                      /\ c.writes = <<>> /\ c.pc = "end"
                      /\ c.out = "err" /\ c.result = <<>>
                      /\ c.err.msg \in {"TypeError", "Invalid status: ",
                                        "Cannot mutate property: it has no composer"}
                /\ (c.pc \in {"create", "update"} \/ c.writes # <<>>) =>
                      /\ ~fails
                      /\ Len(c.writes) = 1
                      /\ c.writes[1].kind = (IF c.op = "insertEntry" THEN "create" ELSE "update")

\* an update with a name outside the allow-list failed after the membership check
C25_Witness ==
    \E t \in Tasks :
        /\ calls[t].op = "updateEntry" /\ calls[t].name = NameB /\ calls[t].checked
        /\ calls[t].data = << <<"s", Str("c")>> >>
        /\ calls[t].out = "err" /\ calls[t].err.msg = "Invalid status: "
        /\ calls[t].err.name = "s"
        /\ calls[t].writes = <<>>

\* the ids of the child collections titled prefix + base that the container holds
IdsListed(base, present) ==
    {ChildUniverse[i].id : i \in {j \in present :
        /\ ChildUniverse[j].type = "child_database"
        /\ ChildUniverse[j].title = DEFAULT_DB_PREFIX \o base}}

C23_ExistingNameAlwaysResolves ==
    \A t \in Racers :
        LET c == calls[t]
        IN  (c.op # None /\ IdsListed(ExpectedBase[c.name], container) # {}) =>
                /\ ~(c.out = "err" /\ c.err.msg = "Database not found")
                /\ c.target # None => c.target \in IdsListed(ExpectedBase[c.name], container)

\* the operation found its name missing, listed, made its lookup, and has not failed
ResolvedAfterMiss(c) ==
    /\ c.op # None /\ ~c.had
    /\ IdsListed(ExpectedBase[c.name], container) # {}
    /\ c.lookups = 1 /\ c.out # "err"

\* C24: when two operations found their names missing from the cache, each has
\* issued a listing of its own (two in all), and once both have made their lookup
\* (neither operation having failed) the cache is the one a single resolution
\* makes of the container, and each has the id of its base's collection: the
\* same id for the same base.
C24_TwoListingsOneCache ==
    (\A t \in Racers : ResolvedAfterMiss(calls[t])) =>
        /\ \A t \in Racers : calls[t].listings = 1
        /\ DOMAIN databaseIdMap = {NameA, NameB}
        /\ \A k \in DOMAIN databaseIdMap : {databaseIdMap[k]} = IdsListed(k, container)
        /\ \A t \in Racers : {calls[t].id} = IdsListed(ExpectedBase[calls[t].name], container)
        /\ \A t, u \in Racers :
              ExpectedBase[calls[t].name] = ExpectedBase[calls[u].name] =>
                  calls[t].id = calls[u].id

\* both callers queried 'a' with the cache empty; both listed, and both query d1
C24_Witness ==
    /\ \A t \in Racers :
          /\ calls[t].name = NameA /\ ~calls[t].had
          /\ calls[t].listings = 1 /\ calls[t].lookups = 1
          /\ calls[t].pc = "dbquery" /\ calls[t].target = "d1"
    /\ DOMAIN databaseIdMap = {NameA, NameB}
====
